---- MODULE Spec2Model ----
(***************************************************************************)
(* Special Situation Memo & Infographic Generator (src/app.py).            *)
(*                                                                         *)
(* Python strings are sequences of one-character strings, so that the      *)
(* string functions of the program (strip, split, regular expressions,     *)
(* lower) are computed character by character.  Two characters of the      *)
(* source that are not ASCII are written as the tokens "U+2019" (right     *)
(* single quotation mark) and "U+2013" (en dash); so are the bullet        *)
(* "U+2022" and the backquote "U+0060".                                    *)
(***************************************************************************)
EXTENDS Integers, Sequences, FiniteSets, TLC

VARIABLES
  session,   \* st.session_state: memo_path, company_name, situation_type
  disk,      \* the .docx files written by generate_special_situation_note
  ui,        \* the messages the script run has shown, in order
  pc,        \* where the script run is: a source line and the loop's locals
  requested, \* the script runner's pending request: "none", "rerun" or "stop"
  inp,       \* the arguments of the function under check (function specs)
  out        \* the value the function returned

vars == <<session, disk, ui, pc, requested, inp, out>>

\* ------------------------------------------------------------------------
\* Python str primitives
\* ------------------------------------------------------------------------

\* str.isspace() characters that the model's texts can hold
WS == {" ", "\t", "\n", "\r"}

Min(S) == CHOOSE x \in S : \A y \in S : x <= y

Max(S) == CHOOSE x \in S : \A y \in S : x >= y

LowerOf ==
  "A" :> "a" @@ "B" :> "b" @@ "C" :> "c" @@ "D" :> "d" @@ "E" :> "e" @@ "F" :> "f" @@ "G" :> "g" @@ "H" :> "h" @@ "I" :> "i" @@ "J" :> "j" @@ "K" :> "k" @@ "L" :> "l" @@ "M" :> "m" @@
  "N" :> "n" @@ "O" :> "o" @@ "P" :> "p" @@ "Q" :> "q" @@ "R" :> "r" @@ "S" :> "s" @@ "T" :> "t" @@ "U" :> "u" @@ "V" :> "v" @@ "W" :> "w" @@ "X" :> "x" @@ "Y" :> "y" @@ "Z" :> "z"

\* str.lower() of one character
lower_char(c) == IF c \in DOMAIN LowerOf THEN LowerOf[c] ELSE c

\* str.lower()
lower(s) == [i \in 1..Len(s) |-> lower_char(s[i])]

\* str.strip()
strip(s) ==
  LET keep == {i \in 1..Len(s) : s[i] \notin WS}
  IN  IF keep = {} THEN <<>> ELSE SubSeq(s, Min(keep), Max(keep))

\* str.rstrip()
rstrip(s) ==
  LET keep == {i \in 1..Len(s) : s[i] \notin WS}
  IN  IF keep = {} THEN <<>> ELSE SubSeq(s, 1, Max(keep))

\* str.split(c) for a one-character separator c: the pieces between separators
split(s, c) ==
  LET P == {i \in 1..Len(s) : s[i] = c}
      n == Cardinality(P)
      pos(k) == IF k = 0 THEN 0
                ELSE IF k = n + 1 THEN Len(s) + 1
                ELSE CHOOSE i \in P : Cardinality({j \in P : j < i}) = k - 1
  IN  [k \in 1..(n + 1) |-> SubSeq(s, pos(k - 1) + 1, pos(k) - 1)]

\* str.join: the pieces with sep between them
RECURSIVE join(_, _)
join(sep, parts) ==
  IF parts = <<>> THEN <<>>
  ELSE IF Len(parts) = 1 THEN parts[1]
  ELSE parts[1] \o sep \o join(sep, Tail(parts))

\* [f(x) for x in xs if keep(x)] helpers
RECURSIVE SelectIdx(_, _, _)
SelectIdx(xs, Keep(_), i) ==
  IF i > Len(xs) THEN <<>>
  ELSE (IF Keep(xs[i]) THEN <<xs[i]>> ELSE <<>>) \o SelectIdx(xs, Keep, i + 1)

NonBlank(line) == strip(line) # <<>>

\* ------------------------------------------------------------------------
\* REPORT_TEMPLATES (src/app.py:91-192): situation type -> outline text.
\* Each template is a triple-quoted string: a newline, the lines, a newline.
\* ------------------------------------------------------------------------

\* "Spin-Off or Split-Up"
SpinOff ==
  <<"S","p","i","n","-","O","f","f"," ","o","r"," ","S","p","l","i","t","-","U","p">>
SpinOffLines ==
  << <<"T","r","a","n","s","a","c","t","i","o","n"," ","O","v","e","r","v","i","e","w">>,
     <<"P","a","r","e","n","t","C","o"," ","a","n","d"," ","S","p","i","n","C","o"," ","d","e","t","a","i","l","s">>,
     <<"R","a","t","i","o","n","a","l","e"," ","(","r","e","g","u","l","a","t","o","r","y",","," ","s","t","r","a","t","e","g","i","c"," ","u","n","l","o","c","k",","," ","v","a","l","u","a","t","i","o","n"," ","a","r","b","i","t","r","a","g","e",")">>,
     <<"D","i","s","t","r","i","b","u","t","i","o","n"," ","t","e","r","m","s"," ","(","r","a","t","i","o",","," ","e","l","i","g","i","b","i","l","i","t","y",","," ","t","a","x"," ","t","r","e","a","t","m","e","n","t",")">>,
     <<"P","a","r","e","n","t","C","o"," ","P","o","s","t","-","S","p","i","n"," ","O","u","t","l","o","o","k">>,
     <<"S","t","r","a","t","e","g","i","c"," ","f","o","c","u","s">>,
     <<"F","i","n","a","n","c","i","a","l"," ","p","r","o","f","i","l","e"," ","a","n","d"," ","v","a","l","u","a","t","i","o","n">>,
     <<"S","p","i","n","C","o"," ","I","n","v","e","s","t","m","e","n","t"," ","C","a","s","e">>,
     <<"B","u","s","i","n","e","s","s"," ","m","o","d","e","l",","," ","g","r","o","w","t","h"," ","d","r","i","v","e","r","s">>,
     <<"H","i","s","t","o","r","i","c","a","l"," ","a","n","d"," ","p","r","o"," ","f","o","r","m","a"," ","f","i","n","a","n","c","i","a","l","s">>,
     <<"I","n","d","e","p","e","n","d","e","n","t"," ","v","a","l","u","a","t","i","o","n"," ","(","e",".","g",".",","," ","S","u","m","-","o","f","-","t","h","e","-","P","a","r","t","s",")">>,
     <<"V","a","l","u","a","t","i","o","n"," ","A","n","a","l","y","s","i","s">>,
     <<"R","i","s","k","s"," ","a","n","d"," ","O","v","e","r","h","a","n","g","s">>,
     <<"F","o","r","c","e","d"," ","s","e","l","l","i","n","g",","," ","l","o","w"," ","f","l","o","a","t",","," ","g","o","v","e","r","n","a","n","c","e"," ","c","o","n","c","e","r","n","s">> >>
\* "Mergers & Acquisitions"
MergersAcquisitions ==
  <<"M","e","r","g","e","r","s"," ","&"," ","A","c","q","u","i","s","i","t","i","o","n","s">>
MergersAcquisitionsLines ==
  << <<"D","e","a","l"," ","S","u","m","m","a","r","y">>,
     <<"P","a","r","t","i","e","s"," ","i","n","v","o","l","v","e","d",","," ","c","o","n","s","i","d","e","r","a","t","i","o","n"," ","(","c","a","s","h","/","s","t","o","c","k",")",","," ","p","r","e","m","i","u","m">>,
     <<"R","e","g","u","l","a","t","o","r","y","/","a","n","t","i","t","r","u","s","t","/","b","o","a","r","d"," ","a","p","p","r","o","v","a","l"," ","s","t","a","t","u","s">>,
     <<"T","a","r","g","e","t"," ","C","o","m","p","a","n","y"," ","A","n","a","l","y","s","i","s">>,
     <<"V","a","l","u","a","t","i","o","n"," ","v","s","."," ","o","f","f","e","r">>,
     <<"C","o","n","t","r","o","l"," ","p","r","e","m","i","u","m"," ","v","s","."," ","p","e","e","r","s">>,
     <<"B","u","y","e","r","U+2019","s"," ","R","a","t","i","o","n","a","l","e"," ","a","n","d"," ","F","i","n","a","n","c","i","n","g">>,
     <<"S","t","r","a","t","e","g","i","c"," ","f","i","t">>,
     <<"S","y","n","e","r","g","i","e","s"," ","a","n","d"," ","p","r","o"," ","f","o","r","m","a"," ","f","i","n","a","n","c","i","a","l","s">>,
     <<"D","e","a","l"," ","f","i","n","a","n","c","i","n","g"," ","(","d","e","b","t",","," ","e","q","u","i","t","y",")">>,
     <<"S","h","a","r","e","h","o","l","d","e","r"," ","V","o","t","e"," ","&"," ","A","n","t","i","t","r","u","s","t"," ","R","i","s","k">>,
     <<"K","e","y"," ","h","o","l","d","e","r","s","'"," ","s","t","a","n","c","e">>,
     <<"T","i","m","i","n","g"," ","a","n","d"," ","l","i","k","e","l","i","h","o","o","d"," ","o","f"," ","d","e","a","l"," ","c","l","o","s","u","r","e">>,
     <<"S","p","r","e","a","d"," ","A","n","a","l","y","s","i","s"," ","a","n","d"," ","A","r","b","i","t","r","a","g","e"," ","O","p","p","o","r","t","u","n","i","t","y">>,
     <<"D","e","a","l"," ","s","p","r","e","a","d">>,
     <<"I","R","R"," ","s","c","e","n","a","r","i","o","s"," ","b","a","s","e","d"," ","o","n"," ","t","i","m","i","n","g","/","r","i","s","k">> >>
\* "Bankruptcy / Distressed / Restructuring"
Bankruptcy ==
  <<"B","a","n","k","r","u","p","t","c","y"," ","/"," ","D","i","s","t","r","e","s","s","e","d"," ","/"," ","R","e","s","t","r","u","c","t","u","r","i","n","g">>
BankruptcyLines ==
  << <<"S","i","t","u","a","t","i","o","n"," ","S","u","m","m","a","r","y">>,
     <<"C","a","u","s","e"," ","o","f"," ","d","i","s","t","r","e","s","s">>,
     <<"F","i","l","i","n","g"," ","d","a","t","e",","," ","j","u","r","i","s","d","i","c","t","i","o","n",","," ","D","I","P"," ","t","e","r","m","s">>,
     <<"C","a","p","i","t","a","l"," ","S","t","r","u","c","t","u","r","e"," ","A","n","a","l","y","s","i","s">>,
     <<"P","r","e","-"," ","a","n","d"," ","p","o","s","t","-","r","e","o","r","g"," ","s","t","r","u","c","t","u","r","e">>,
     <<"S","e","n","i","o","r","i","t","y"," ","w","a","t","e","r","f","a","l","l">>,
     <<"C","r","e","d","i","t","o","r"," ","c","l","a","s","s","e","s"," ","a","n","d"," ","r","e","c","o","v","e","r","y"," ","p","o","t","e","n","t","i","a","l">>,
     <<"V","a","l","u","a","t","i","o","n"," ","a","n","d"," ","R","e","c","o","v","e","r","y"," ","S","c","e","n","a","r","i","o","s">>,
     <<"E","s","t","i","m","a","t","e","d"," ","E","n","t","e","r","p","r","i","s","e"," ","V","a","l","u","e">>,
     <<"R","e","c","o","v","e","r","y"," ","p","e","r"," ","i","n","s","t","r","u","m","e","n","t"," ","(","b","o","n","d","s",","," ","e","q","u","i","t","y",","," ","u","n","s","e","c","u","r","e","d",")">>,
     <<"R","e","o","r","g","a","n","i","z","a","t","i","o","n"," ","P","l","a","n"," ","a","n","d"," ","E","x","i","t"," ","T","i","m","e","l","i","n","e">>,
     <<"C","o","n","v","e","r","s","i","o","n"," ","t","o"," ","e","q","u","i","t","y",","," ","r","i","g","h","t","s"," ","o","f","f","e","r","i","n","g",","," ","w","a","r","r","a","n","t","s">>,
     <<"E","x","i","t"," ","m","u","l","t","i","p","l","e","s">>,
     <<"C","a","t","a","l","y","s","t","s"," ","a","n","d"," ","L","e","g","a","l"," ","R","i","s","k","s">>,
     <<"J","u","d","g","e"," ","a","p","p","r","o","v","a","l",","," ","c","r","e","d","i","t","o","r"," ","o","b","j","e","c","t","i","o","n","s",","," ","a","s","s","e","t"," ","s","a","l","e","s">> >>
\* "Activist Campaign"
ActivistCampaign ==
  <<"A","c","t","i","v","i","s","t"," ","C","a","m","p","a","i","g","n">>
ActivistCampaignLines ==
  << <<"A","c","t","i","v","i","s","t"," ","B","a","c","k","g","r","o","u","n","d">>,
     <<"F","u","n","d"," ","p","r","o","f","i","l","e",","," ","h","i","s","t","o","r","y",","," ","p","r","i","o","r"," ","c","a","m","p","a","i","g","n","s">>,
     <<"C","a","m","p","a","i","g","n"," ","D","e","t","a","i","l","s">>,
     <<"D","e","m","a","n","d","s"," ","(","b","o","a","r","d"," ","s","e","a","t",","," ","s","p","i","n",","," ","b","u","y","b","a","c","k",","," ","e","t","c",".",")">>,
     <<"T","i","m","e","l","i","n","e"," ","o","f"," ","e","n","g","a","g","e","m","e","n","t">>,
     <<"C","o","m","p","a","n","y","'","s"," ","R","e","s","p","o","n","s","e"," ","a","n","d"," ","G","o","v","e","r","n","a","n","c","e"," ","P","r","o","f","i","l","e">>,
     <<"M","a","n","a","g","e","m","e","n","t"," ","a","l","i","g","n","m","e","n","t",","," ","s","h","a","r","e","h","o","l","d","e","r"," ","d","e","f","e","n","s","e">>,
     <<"S","c","e","n","a","r","i","o"," ","A","n","a","l","y","s","i","s">>,
     <<"S","t","a","t","u","s"," ","q","u","o"," ","v","s","."," ","a","c","t","i","v","i","s","t"," ","s","u","c","c","e","s","s">>,
     <<"P","r","o","x","y"," ","f","i","g","h","t"," ","i","m","p","l","i","c","a","t","i","o","n","s">>,
     <<"V","a","l","u","a","t","i","o","n"," ","I","m","p","a","c","t">>,
     <<"N","P","V"," ","o","f"," ","p","o","t","e","n","t","i","a","l"," ","c","h","a","n","g","e","s"," ","(","e",".","g",".",","," ","s","p","i","n","-","o","f","f"," ","v","a","l","u","e",","," ","R","O","I","C"," ","u","p","l","i","f","t",")">> >>
\* "Regulatory or Legal Catalyst"
RegulatoryLegal ==
  <<"R","e","g","u","l","a","t","o","r","y"," ","o","r"," ","L","e","g","a","l"," ","C","a","t","a","l","y","s","t">>
RegulatoryLegalLines ==
  << <<"L","e","g","a","l","/","R","e","g","u","l","a","t","o","r","y"," ","B","a","c","k","g","r","o","u","n","d">>,
     <<"C","a","s","e","/","i","s","s","u","e"," ","s","u","m","m","a","r","y">>,
     <<"H","i","s","t","o","r","i","c","a","l"," ","l","e","g","a","l"," ","p","r","o","c","e","e","d","i","n","g","s">>,
     <<"O","u","t","c","o","m","e"," ","S","c","e","n","a","r","i","o","s">>,
     <<"W","i","n",","," ","l","o","s","s",","," ","s","e","t","t","l","e","m","e","n","t">>,
     <<"T","i","m","e","l","i","n","e">>,
     <<"F","i","n","a","n","c","i","a","l"," ","a","n","d"," ","S","t","r","a","t","e","g","i","c"," ","I","m","p","l","i","c","a","t","i","o","n","s">>,
     <<"F","i","n","e","s",","," ","p","r","o","d","u","c","t"," ","a","p","p","r","o","v","a","l",","," ","l","i","c","e","n","s","e"," ","l","o","s","s">>,
     <<"R","e","v","e","n","u","e","/","E","B","I","T","D","A"," ","i","m","p","a","c","t">>,
     <<"M","a","r","k","e","t"," ","R","e","a","c","t","i","o","n"," ","H","i","s","t","o","r","y"," ","(","i","f"," ","a","n","y",")">>,
     <<"P","a","s","t"," ","s","i","m","i","l","a","r"," ","c","a","s","e","s">> >>
\* "Asset Sales or Carve-Outs"
AssetSales ==
  <<"A","s","s","e","t"," ","S","a","l","e","s"," ","o","r"," ","C","a","r","v","e","-","O","u","t","s">>
AssetSalesLines ==
  << <<"T","r","a","n","s","a","c","t","i","o","n"," ","O","v","e","r","v","i","e","w">>,
     <<"B","u","y","e","r",","," ","p","r","i","c","e",","," ","s","t","r","u","c","t","u","r","e">>,
     <<"V","a","l","u","a","t","i","o","n"," ","v","s","."," ","b","o","o","k"," ","a","n","d"," ","p","e","e","r","s">>,
     <<"S","t","r","a","t","e","g","i","c"," ","I","m","p","a","c","t">>,
     <<"F","o","c","u","s"," ","s","h","i","f","t",","," ","d","e","l","e","v","e","r","a","g","i","n","g",","," ","m","a","r","g","i","n"," ","p","r","o","f","i","l","e">>,
     <<"U","s","e"," ","o","f"," ","P","r","o","c","e","e","d","s">>,
     <<"D","e","b","t"," ","r","e","p","a","y","m","e","n","t",","," ","d","i","v","i","d","e","n","d","s",","," ","b","u","y","b","a","c","k","s",","," ","c","a","p","e","x">>,
     <<"R","e","-","r","a","t","i","n","g"," ","P","o","t","e","n","t","i","a","l">>,
     <<"E","B","I","T","D","A"," ","m","a","r","g","i","n"," ","u","p","l","i","f","t",","," ","r","e","t","u","r","n"," ","m","e","t","r","i","c","s">> >>
\* "Capital Raising or Buyback Catalyst"
CapitalRaising ==
  <<"C","a","p","i","t","a","l"," ","R","a","i","s","i","n","g"," ","o","r"," ","B","u","y","b","a","c","k"," ","C","a","t","a","l","y","s","t">>
CapitalRaisingLines ==
  << <<"T","r","a","n","s","a","c","t","i","o","n"," ","M","e","c","h","a","n","i","c","s">>,
     <<"S","i","z","e",","," ","d","i","l","u","t","i","o","n",","," ","i","n","s","t","r","u","m","e","n","t"," ","t","y","p","e">>,
     <<"C","a","p","i","t","a","l"," ","S","t","r","u","c","t","u","r","e"," ","P","o","s","t","-","D","e","a","l">>,
     <<"L","e","v","e","r","a","g","e"," ","r","a","t","i","o","s",","," ","i","n","t","e","r","e","s","t"," ","b","u","r","d","e","n">>,
     <<"S","h","a","r","e","h","o","l","d","e","r"," ","I","m","p","l","i","c","a","t","i","o","n","s">>,
     <<"A","c","c","r","e","t","i","o","n","/","d","i","l","u","t","i","o","n">>,
     <<"E","P","S"," ","i","m","p","a","c","t">>,
     <<"B","u","y","b","a","c","k"," ","A","n","a","l","y","s","i","s"," ","(","i","f"," ","a","p","p","l","i","c","a","b","l","e",")">>,
     <<"R","e","p","u","r","c","h","a","s","e"," ","p","a","c","e",","," ","v","a","l","u","a","t","i","o","n"," ","s","u","p","p","o","r","t">> >>


\* the text of a triple-quoted template with these lines
Template(lines) == <<"\n">> \o join(<<"\n">>, lines) \o <<"\n">>

REPORT_TEMPLATES ==
  (SpinOff :> Template(SpinOffLines)) @@
  (MergersAcquisitions :> Template(MergersAcquisitionsLines)) @@
  (Bankruptcy :> Template(BankruptcyLines)) @@
  (ActivistCampaign :> Template(ActivistCampaignLines)) @@
  (RegulatoryLegal :> Template(RegulatoryLegalLines)) @@
  (AssetSales :> Template(AssetSalesLines)) @@
  (CapitalRaising :> Template(CapitalRaisingLines))

\* list(REPORT_TEMPLATES.keys()), in the order of the source
SituationTypes ==
  <<SpinOff, MergersAcquisitions, Bankruptcy, ActivistCampaign,
    RegulatoryLegal, AssetSales, CapitalRaising>>

\* ------------------------------------------------------------------------
\* Section maps: a Python dict as the sequence of its <<key, value>> items in
\* insertion order
\* ------------------------------------------------------------------------

Keys(d) == [i \in 1..Len(d) |-> d[i][1]]

KeySet(d) == {d[i][1] : i \in 1..Len(d)}

HasKey(d, k) == \E i \in 1..Len(d) : d[i][1] = k

Get(d, k) == d[CHOOSE i \in 1..Len(d) : d[i][1] = k][2]

\* an assignment that keeps the value a key already has
dict_set_keep_first(d, k, v) ==
  IF HasKey(d, k) THEN d ELSE Append(d, <<k, v>>)

\* d[k] = v: an existing key keeps its place, a new key goes last
dict_set(d, k, v) ==
  IF HasKey(d, k)
  THEN [i \in 1..Len(d) |-> IF d[i][1] = k THEN <<k, v>> ELSE d[i]]
  ELSE Append(d, <<k, v>>)

\* ------------------------------------------------------------------------
\* split_into_sections (src/app.py:445-465)
\* ------------------------------------------------------------------------

\* line.split('(')[0].strip()
title_of_line(line) == strip(split(line, "(")[1])

\* titles = [line.split('(')[0].strip()
\*           for line in template.strip().split('\n') if line.strip()]
RECURSIVE TitlesFrom(_, _)
TitlesFrom(lines, i) ==
  IF i > Len(lines) THEN <<>>
  ELSE (IF NonBlank(lines[i]) THEN <<title_of_line(lines[i])>> ELSE <<>>)
       \o TitlesFrom(lines, i + 1)

split_titles(template) == TitlesFrom(split(strip(template), "\n"), 1)

\* the titles of the registry's templates, computed once
RegistryTitles == [S \in DOMAIN REPORT_TEMPLATES |-> split_titles(REPORT_TEMPLATES[S])]

NoMatch == [start |-> 0, mid |-> 0, end |-> 0]

\* '^' under re.MULTILINE
AtLineStart(text, p) == p = 1 \/ text[p - 1] = "\n"

\* '$' under re.MULTILINE
AtLineEnd(text, q) == q = Len(text) + 1 \/ text[q] = "\n"

\* re.escape(title) under re.IGNORECASE at position p
TitleAt(text, t, p) ==
  /\ p + Len(t) - 1 <= Len(text)
  /\ \A i \in 1..Len(t) : lower_char(text[p + i - 1]) = lower_char(t[i])

\* '\s*$' from position q: the ends the greedy \s* can stop at
EolEnds(text, q) ==
  {k \in q..(Len(text) + 1) :
     /\ \A j \in q..(k - 1) : text[j] \in WS
     /\ AtLineEnd(text, k)}

\* a pattern without the trailing '\s*$': a title at the start of a line
AltMatch_unanchored(text, t, p) ==
  IF TitleAt(text, t, p)
  THEN [start |-> p, mid |-> p + Len(t), end |-> p + Len(t)]
  ELSE NoMatch

\* one alternative of the pattern at p: title, then \s*$ (greedy, backtracking)
AltMatch(text, t, p) ==
  IF TitleAt(text, t, p) /\ EolEnds(text, p + Len(t)) # {}
  THEN [start |-> p, mid |-> p + Len(t), end |-> Max(EolEnds(text, p + Len(t)))]
  ELSE NoMatch

\* r'^(' + '|'.join(map(re.escape, titles)) + r')\s*$' at position p:
\* the first alternative, in the order of titles, that matches
MatchAt(text, titles, p) ==
  IF ~AtLineStart(text, p) THEN NoMatch
  ELSE LET ok == {i \in 1..Len(titles) : AltMatch(text, titles[i], p) # NoMatch}
       IN  IF ok = {} THEN NoMatch ELSE AltMatch(text, titles[Min(ok)], p)

\* list(pattern.finditer(text)) from position pos on
RECURSIVE finditer(_, _, _)
finditer(text, titles, pos) ==
  LET starts == {p \in pos..(Len(text) + 1) : MatchAt(text, titles, p) # NoMatch}
  IN  IF starts = {} THEN <<>>
      ELSE LET m == MatchAt(text, titles, Min(starts))
           IN  <<m>> \o finditer(text, titles,
                                 IF m.end > m.start THEN m.end ELSE m.start + 1)

\* next((t for t in titles if t.lower() == title.lower()), title)
canonical_title(titles, title) ==
  LET same == {i \in 1..Len(titles) : lower(titles[i]) = lower(title)}
  IN  IF same = {} THEN title ELSE titles[Min(same)]

\* a splitter whose every span runs to the end of the text
end_of_content_eof(text, matches, i) == Len(text)

\* end_of_content = matches[i + 1].start() if i + 1 < len(matches) else len(text)
end_of_content(text, matches, i) ==
  IF i + 1 <= Len(matches) THEN matches[i + 1].start - 1 ELSE Len(text)

\* the for loop over enumerate(matches), from the i-th match on
RECURSIVE SectionsLoop(_, _, _, _, _)
SectionsLoop(text, titles, matches, i, sections) ==
  IF i > Len(matches) THEN sections
  ELSE LET m       == matches[i]
           title   == strip(SubSeq(text, m.start, m.mid - 1))
           content == strip(SubSeq(text, m.end, end_of_content(text, matches, i)))
       IN  SectionsLoop(text, titles, matches, i + 1,
                        dict_set(sections, canonical_title(titles, title), content))

Memo == <<"M","e","m","o">>

TitlesOf(template) ==
  LET known == {S \in DOMAIN REPORT_TEMPLATES : REPORT_TEMPLATES[S] = template}
  IN  IF known # {} THEN RegistryTitles[CHOOSE S \in known : TRUE]
      ELSE split_titles(template)

split_into_sections(text, template) ==
  LET titles  == TitlesOf(template)
      matches == finditer(text, titles, 1)
  IN  IF titles = <<>> THEN <<<<Memo, strip(text)>>>>
      ELSE IF matches = <<>> THEN <<<<Memo, strip(text)>>>>
      ELSE SectionsLoop(text, titles, matches, 1, <<>>)

\* ------------------------------------------------------------------------
\* The function specifications: Init draws the arguments, the action applies
\* the function
\* ------------------------------------------------------------------------

NotRun == [fn |-> "none"]

NoSession == [memo_path |-> 0, company_name |-> <<>>, situation_type |-> <<>>]

\* a position of the script: the source line the run is at and the locals of
\* the loop of build_infographic_html (sections, the number of sections done,
\* the cards written so far)
Position(at, sections, idx, cards) ==
  [at |-> at, sections |-> sections, idx |-> idx, cards |-> cards]

At(line) == Position(line, <<>>, 0, <<>>)

\* no script run is in progress
Idle == At("idle")

AppIdle ==
  /\ session = NoSession
  /\ disk = <<>>
  /\ ui = <<>>
  /\ pc = Idle
  /\ requested = "none"

\* texts of at most MaxLines lines
MaxLines == 3

Foo == <<"f","o","o">>

\* the lines a memo text is made of: a heading of the outline, its second line,
\* the heading in lower case, indented, with a trailing blank, with a colon,
\* filler and the empty line
SplitLineChoices(S) ==
  LET T == RegistryTitles[S]
  IN  {T[1], T[2], lower(T[1]), <<" ">> \o T[1], T[1] \o <<" ">>,
       T[1] \o <<":">>, Foo, <<>>}

SplitTexts(S, maxLines) ==
  {join(<<"\n">>, ls) :
     ls \in UNION {[1..n -> SplitLineChoices(S)] : n \in 0..maxLines}}

SplitInputs(maxLines) ==
  UNION {{[fn |-> "split", situation_type |-> S, text |-> t] : t \in SplitTexts(S, maxLines)} :
           S \in DOMAIN REPORT_TEMPLATES}

InitSplit ==
  /\ AppIdle
  /\ inp \in SplitInputs(MaxLines)
  /\ out = NotRun

DoSplit ==
  /\ inp.fn = "split"
  /\ out = NotRun
  /\ out' = [fn |-> "split",
             sections |-> split_into_sections(inp.text, REPORT_TEMPLATES[inp.situation_type])]
  /\ UNCHANGED <<session, disk, ui, pc, requested, inp>>

NextSplit == DoSplit

SpecSplit == InitSplit /\ [][NextSplit]_vars

\* ------------------------------------------------------------------------
\* Claims about split_into_sections
\* ------------------------------------------------------------------------

SplitRan == out.fn = "split"

SplitTitles == RegistryTitles[inp.situation_type]

\* the titles in lower case, computed once
RegistryLowerTitles ==
  [S \in DOMAIN REPORT_TEMPLATES |->
     [i \in 1..Len(RegistryTitles[S]) |-> lower(RegistryTitles[S][i])]]

\* the titles a line names, the line taken as s: the index of each title that
\* s is, in any letter case
NamedBy(s) ==
  LET low == lower(s)
      LT  == RegistryLowerTitles[inp.situation_type]
  IN  {i \in 1..Len(LT) : low = LT[i]}

\* per line of the text, the titles it names when it is a title possibly
\* followed by blanks
HeadingTable(lines) == [k \in 1..Len(lines) |-> NamedBy(rstrip(lines[k]))]

\* per line of the text, the titles it names when trimmed on both sides
StandaloneTable(lines) == [k \in 1..Len(lines) |-> NamedBy(strip(lines[k]))]

TitleLines(named) == {k \in DOMAIN named : named[k] # {}}

\* a subset of the titles, not empty, each on one line only
EachTitleOnce(named) ==
  /\ TitleLines(named) # {}
  /\ \A j, k \in TitleLines(named) : j # k => Min(named[j]) # Min(named[k])

NextTitleLine(named, k) ==
  LET later == {j \in TitleLines(named) : j > k}
  IN  IF later = {} THEN Len(named) + 1 ELSE Min(later)

\* the trimmed text strictly between title line k and the next title line
SpanAfter(lines, named, k) ==
  strip(join(<<"\n">>, SubSeq(lines, k + 1, NextTitleLine(named, k) - 1)))

SpansRecovered(lines, named) ==
  /\ KeySet(out.sections) = {SplitTitles[Min(named[k])] : k \in TitleLines(named)}
  /\ Len(out.sections) = Cardinality(TitleLines(named))
  /\ \A k \in TitleLines(named) :
       /\ HasKey(out.sections, SplitTitles[Min(named[k])])
       /\ Get(out.sections, SplitTitles[Min(named[k])]) = SpanAfter(lines, named, k)

\* nothing but blank lines before the first title line
NoPreamble(lines, named) ==
  \A k \in 1..(Min(TitleLines(named)) - 1) : strip(lines[k]) = <<>>

\* C1 as stated: the titles present once each are the keys, each with the
\* trimmed text up to the next title line, and the spans with the title lines
\* account for the whole text
C1_WholeTextRecovered ==
  SplitRan =>
    LET lines == split(inp.text, "\n")
        named == HeadingTable(lines)
    IN  EachTitleOnce(named) =>
          (SpansRecovered(lines, named) /\ NoPreamble(lines, named))

\* C1: when a non-empty subset of the outline's titles each appear on one line
\* (any letter case, trailing blanks allowed, any order), the keys of the map are
\* exactly those titles and each key holds the trimmed text strictly between its
\* title line and the next title line or the end of the text; the spans and the
\* title lines account for the text from the first title line on, and the text
\* before the first title line is in no span
C1_SpansFromFirstTitle ==
  SplitRan =>
    LET lines == split(inp.text, "\n")
        named == HeadingTable(lines)
    IN  EachTitleOnce(named) => SpansRecovered(lines, named)

C1_Witness ==
  /\ SplitRan
  /\ LET lines == split(inp.text, "\n")
         named == HeadingTable(lines)
     IN  /\ EachTitleOnce(named)
         /\ Cardinality(TitleLines(named)) = 2
         /\ ~NoPreamble(lines, named)
         /\ \E j, k \in TitleLines(named) : j < k /\ Min(named[j]) > Min(named[k])

\* the lines that name title t, and the last of them
LinesOf(named, t) == {k \in TitleLines(named) : Min(named[k]) = t}

\* the entries of the map under key
EntriesOf(d, key) == {i \in 1..Len(d) : d[i][1] = key}

\* C12: when the same title is on more than one line of the text (in any letter
\* case, possibly followed by blanks), the map holds exactly one entry for it,
\* whose content is the trimmed span after its last line; the span after an
\* earlier line of the title is not recorded for it
C12_LastMatchWins ==
  SplitRan =>
    LET lines == split(inp.text, "\n")
        named == HeadingTable(lines)
    IN  \A k \in TitleLines(named) :
          LET t    == Min(named[k])
              last == Max(LinesOf(named, t))
          IN  Cardinality(LinesOf(named, t)) > 1 =>
                /\ Cardinality(EntriesOf(out.sections, SplitTitles[t])) = 1
                /\ Get(out.sections, SplitTitles[t]) = SpanAfter(lines, named, last)
                /\ (k # last /\ SpanAfter(lines, named, k) # SpanAfter(lines, named, last)) =>
                     <<SplitTitles[t], SpanAfter(lines, named, k)>>
                       \notin {out.sections[i] : i \in 1..Len(out.sections)}

\* a title on two lines, in different letter case, with different spans after
\* them
C12_Witness ==
  /\ SplitRan
  /\ LET lines == split(inp.text, "\n")
         named == HeadingTable(lines)
     IN  \E j, k \in TitleLines(named) :
           /\ j < k
           /\ Min(named[j]) = Min(named[k])
           /\ lines[j] # lines[k]
           /\ SpanAfter(lines, named, j) # <<>>
           /\ SpanAfter(lines, named, j) # SpanAfter(lines, named, k)

\* C13: every line that, without its leading and trailing spaces or tabs and
\* in any letter case, is a title of the outline is taken as that section's
\* heading: the title, in the outline's own spelling, is a key of the map
C13_DriftTolerated ==
  SplitRan =>
    LET lines == split(inp.text, "\n")
        named == StandaloneTable(lines)
    IN  \A k \in TitleLines(named) : HasKey(out.sections, SplitTitles[Min(named[k])])

\* no line of the text is, trimmed and in any letter case, a title
NoStandaloneTitle(lines) == TitleLines(StandaloneTable(lines)) = {}

\* C3: the splitter always returns a non-empty map, and for a text with no
\* standalone line matching a title that map is {"Memo": text.strip()}
C3_MemoFallback ==
  SplitRan =>
    /\ Len(out.sections) >= 1
    /\ NoStandaloneTitle(split(inp.text, "\n")) =>
         out.sections = <<<<Memo, strip(inp.text)>>>>

C3_Witness ==
  /\ SplitRan
  /\ LET lines == split(inp.text, "\n")
     IN  /\ NoStandaloneTitle(lines)
         /\ \E k \in 1..Len(lines) : lines[k] = SplitTitles[1] \o <<":">>
  /\ strip(inp.text) # <<>>
  /\ strip(inp.text) # inp.text

\* the section headings of each outline, by line number of its template; the
\* other lines are the sub-bullet description lines under them
HeadingLineNumbers ==
  (SpinOff :> {1, 5, 8, 12, 13}) @@
  (MergersAcquisitions :> {1, 4, 7, 11, 14}) @@
  (Bankruptcy :> {1, 4, 8, 11, 14}) @@
  (ActivistCampaign :> {1, 3, 6, 8, 11}) @@
  (RegulatoryLegal :> {1, 4, 7, 10}) @@
  (AssetSales :> {1, 4, 6, 8}) @@
  (CapitalRaising :> {1, 3, 5, 8})

TemplateLines(S) == split(strip(REPORT_TEMPLATES[S]), "\n")

\* the sub-bullet description lines of an outline, as written and as the text
\* before their parenthesis
HintLines(S) ==
  LET L == TemplateLines(S)
      H == (1..Len(L)) \ HeadingLineNumbers[S]
  IN  {L[i] : i \in H} \cup {title_of_line(L[i]) : i \in H}

RegistryHintLines == [S \in DOMAIN REPORT_TEMPLATES |-> HintLines(S)]

\* C6: a sub-bullet description line of the template never becomes a key of the
\* map returned by split_into_sections or by
\* extract_sections_from_docx_for_infographic
C6_HintsAreNotSections ==
  out.fn \in {"split", "extract"} =>
    KeySet(out.sections) \cap RegistryHintLines[inp.situation_type] = {}

\* ------------------------------------------------------------------------
\* format_memo_docx (src/app.py:467-500): a document is the sequence of its
\* paragraphs; a paragraph keeps its text, with "\n" for a line break
\* ------------------------------------------------------------------------

Paragraph(text, bold, size) == [text |-> text, bold |-> bold, size |-> size]

\* str.split('\n\n'): the pieces between non-overlapping "\n\n", left to right
RECURSIVE split_blank_line(_)
split_blank_line(s) ==
  LET P == {i \in 1..(Len(s) - 1) : s[i] = "\n" /\ s[i + 1] = "\n"}
  IN  IF P = {} THEN <<s>>
      ELSE <<SubSeq(s, 1, Min(P) - 1)>>
           \o split_blank_line(SubSeq(s, Min(P) + 2, Len(s)))

\* for para in content.strip().split('\n\n'): if para.strip(): add_paragraph(...)
RECURSIVE BodyParagraphs(_, _)
BodyParagraphs(blocks, i) ==
  IF i > Len(blocks) THEN <<>>
  ELSE (IF strip(blocks[i]) # <<>>
        THEN <<Paragraph(strip(blocks[i]), FALSE, 11)>> ELSE <<>>)
       \o BodyParagraphs(blocks, i + 1)

\* for section_title, content in memo_dict.items()
RECURSIVE SectionParagraphs(_, _)
SectionParagraphs(memo_dict, i) ==
  IF i > Len(memo_dict) THEN <<>>
  ELSE <<Paragraph(memo_dict[i][1], TRUE, 14)>>
       \o BodyParagraphs(split_blank_line(strip(memo_dict[i][2])), 1)
       \o SectionParagraphs(memo_dict, i + 1)

InvestmentMemo ==
  <<" ","I","n","v","e","s","t","m","e","n","t"," ","M","e","m","o">>

format_memo_docx(memo_dict, company_name, situation_type) ==
  << Paragraph(company_name \o <<" ", "U+2013", " ">> \o situation_type
               \o InvestmentMemo, TRUE, 20),
     Paragraph(<<>>, FALSE, 11) >>
  \o SectionParagraphs(memo_dict, 1)

\* ------------------------------------------------------------------------
\* extract_sections_from_docx_for_infographic (src/app.py:506-533)
\* ------------------------------------------------------------------------

\* str.splitlines() of a text whose only line boundary is "\n"
splitlines(s) ==
  LET parts == split(s, "\n")
  IN  IF s = <<>> THEN <<>>
      ELSE IF parts[Len(parts)] = <<>> THEN SubSeq(parts, 1, Len(parts) - 1)
      ELSE parts

\* {t.strip().lower() for t in toc.strip().splitlines() if t.strip()}
expected_titles(toc) ==
  LET L == splitlines(strip(toc))
  IN  {lower(strip(L[i])) : i \in {j \in 1..Len(L) : NonBlank(L[j])}}

RegistryExpected == [S \in DOMAIN REPORT_TEMPLATES |-> expected_titles(REPORT_TEMPLATES[S])]

\* if current_heading and current_text: sections[current_heading] = ...
\* (current_heading None is the empty text: a heading is never empty)
flush(sections, current_heading, current_text) ==
  IF current_heading # <<>> /\ current_text # <<>>
  THEN dict_set(sections, current_heading, strip(join(<<"\n">>, current_text)))
  ELSE sections

\* the loop over doc.paragraphs and the flush after it
RECURSIVE ExtractLoop(_, _, _, _, _, _)
ExtractLoop(paragraphs, i, expected, sections, current_heading, current_text) ==
  IF i > Len(paragraphs) THEN flush(sections, current_heading, current_text)
  ELSE LET text == strip(paragraphs[i].text)
       IN  IF text = <<>>
           THEN ExtractLoop(paragraphs, i + 1, expected, sections,
                            current_heading, current_text)
           ELSE IF lower(text) \in expected
           THEN ExtractLoop(paragraphs, i + 1, expected,
                            flush(sections, current_heading, current_text),
                            text, <<>>)
           ELSE IF current_heading # <<>>
           THEN ExtractLoop(paragraphs, i + 1, expected, sections,
                            current_heading, Append(current_text, text))
           ELSE ExtractLoop(paragraphs, i + 1, expected, sections,
                            current_heading, current_text)

extract_sections_from_docx_for_infographic(doc, situation_type) ==
  IF situation_type \notin DOMAIN REPORT_TEMPLATES THEN <<>>
  ELSE ExtractLoop(doc, 1, RegistryExpected[situation_type], <<>>, <<>>, <<>>)

\* ------------------------------------------------------------------------
\* The renderer and the re-extractor as functions
\* ------------------------------------------------------------------------

Acme == <<"A","c","m","e">>

Bar == <<"b","a","r">>

Reverse(q) == [i \in 1..Len(q) |-> q[Len(q) + 1 - i]]

\* content blocks: one paragraph, two paragraphs, two lines of one paragraph,
\* none, and a paragraph that is a title in lower case
ContentChoices(S) ==
  {Foo, Foo \o <<"\n", "\n">> \o Bar, Foo \o <<"\n">> \o Bar, <<>>,
   Foo \o <<"\n", "\n">> \o lower(RegistryTitles[S][1])}

\* the section maps with all the titles of S as keys, in the order of the
\* outline or in the reverse order, one key with a content of its own
RoundTripMaps(S) ==
  {[i \in 1..Len(ks) |-> <<ks[i], IF i = j THEN c ELSE Foo>>] :
     ks \in {RegistryTitles[S], Reverse(RegistryTitles[S])},
     j \in 1..Len(RegistryTitles[S]),
     c \in ContentChoices(S)}

RoundTripInputs(company_name) ==
  UNION {{[fn |-> "roundtrip", situation_type |-> S, company_name |-> company_name,
           memo_dict |-> M] : M \in RoundTripMaps(S)} :
           S \in DOMAIN REPORT_TEMPLATES}

\* documents of at most MaxParas paragraphs
MaxParas == 3

\* the first line of the template of S that carries a parenthesis, or else its
\* third line
AnnotatedLine(S) ==
  LET L == TemplateLines(S)
      A == {i \in 1..Len(L) : \E k \in 1..Len(L[i]) : L[i][k] = "("}
  IN  IF A = {} THEN L[3] ELSE L[Min(A)]

\* paragraph texts of an uploaded document: a heading of the outline, as
\* written and in lower case, its second line, an annotated line as written and
\* without its parenthesis, and filler
ParagraphChoices(S) ==
  LET T == RegistryTitles[S]
  IN  {T[1], lower(T[1]), T[2], AnnotatedLine(S), title_of_line(AnnotatedLine(S)),
       Foo, <<" ">> \o Bar \o <<" ">>}

UploadedDocs(S, maxParas) ==
  {[i \in 1..Len(ts) |-> Paragraph(ts[i], FALSE, 11)] :
     ts \in UNION {[1..k -> ParagraphChoices(S)] : k \in 0..maxParas}}

ExtractInputs(maxParas) ==
  UNION {{[fn |-> "extract", situation_type |-> S, doc |-> d] : d \in UploadedDocs(S, maxParas)} :
           S \in DOMAIN REPORT_TEMPLATES}

InitDocx ==
  /\ AppIdle
  /\ inp \in RoundTripInputs(Acme) \cup ExtractInputs(MaxParas)
  /\ out = NotRun

\* extract_sections_from_docx_for_infographic(file, situation_type) on the saved
\* format_memo_docx(memo_dict, company_name, situation_type)
DoRoundTrip ==
  /\ inp.fn = "roundtrip"
  /\ out = NotRun
  /\ LET doc == format_memo_docx(inp.memo_dict, inp.company_name, inp.situation_type)
     IN  out' = [fn |-> "roundtrip", doc |-> doc,
                 sections |-> extract_sections_from_docx_for_infographic(
                                doc, inp.situation_type)]
  /\ UNCHANGED <<session, disk, ui, pc, requested, inp>>

DoExtract ==
  /\ inp.fn = "extract"
  /\ out = NotRun
  /\ out' = [fn |-> "extract",
             sections |-> extract_sections_from_docx_for_infographic(
                            inp.doc, inp.situation_type)]
  /\ UNCHANGED <<session, disk, ui, pc, requested, inp>>

NextDocx == DoRoundTrip \/ DoExtract

SpecDocx == InitDocx /\ [][NextDocx]_vars

\* the paragraphs of a content block
Blocks(content) == split_blank_line(content)

\* no paragraph of any content block is, in any letter case, a title
NoTitleParagraph(M, S) ==
  \A i \in 1..Len(M) : \A b \in 1..Len(Blocks(M[i][2])) :
    lower(strip(Blocks(M[i][2])[b])) \notin
      {lower(RegistryTitles[S][k]) : k \in 1..Len(RegistryTitles[S])}

\* a dict as the set of its items: dict equality takes no account of order
Items(d) == {d[i] : i \in 1..Len(d)}

\* C2: a section map whose keys are the canonical titles of the outline of S,
\* in any order, and whose content blocks hold no paragraph equal to a title,
\* is returned unchanged by the re-extractor applied to its rendered document
C2_RoundTrip ==
  (out.fn = "roundtrip" /\ NoTitleParagraph(inp.memo_dict, inp.situation_type))
    => Items(out.sections) = Items(inp.memo_dict)

\* the titles and the lines of the outlines, spelled as in the registry
CanonicalSpellings ==
  [S \in DOMAIN REPORT_TEMPLATES |->
     {RegistryTitles[S][i] : i \in 1..Len(RegistryTitles[S])}
     \cup {strip(TemplateLines(S)[i]) : i \in 1..Len(TemplateLines(S))}]

\* C5: every key of a map returned by the splitter or by the re-extractor is a
\* title of the outline spelled as in the outline, or the fallback key "Memo"
C5_KeysAreCanonical ==
  out.fn \in {"split", "extract", "roundtrip"} =>
    KeySet(out.sections) \subseteq CanonicalSpellings[inp.situation_type] \cup {Memo}

\* ------------------------------------------------------------------------
\* clean_markdown (src/app.py:279-289).  re.sub scans left to right, replaces
\* each leftmost match and goes on after it; '.' matches any character but "\n"
\* ------------------------------------------------------------------------

StartsWith(text, i, d) ==
  /\ i >= 1
  /\ i + Len(d) - 1 <= Len(text)
  /\ \A k \in 1..Len(d) : text[i + k - 1] = d[k]

NoNewline(text, a, b) == \A k \in a..b : text[k] # "\n"

\* the end of the maximal run of characters of the set C that starts at i
\* (i - 1 when text[i] is not in C)
RunEnd(text, i, C) ==
  LET stop == {k \in i..Len(text) : text[k] \notin C}
  IN  IF stop = {} THEN Len(text) ELSE Min(stop) - 1

\* re.sub(r'^[ \t\-]{3,}$', '', text, flags=re.MULTILINE)
RECURSIVE sub_rule_lines(_, _)
sub_rule_lines(text, pos) ==
  LET Rule(i) == /\ AtLineStart(text, i)
                 /\ RunEnd(text, i, {" ", "\t", "-"}) >= i + 2
                 /\ AtLineEnd(text, RunEnd(text, i, {" ", "\t", "-"}) + 1)
      starts == {i \in pos..Len(text) : Rule(i)}
  IN  IF starts = {} THEN SubSeq(text, pos, Len(text))
      ELSE SubSeq(text, pos, Min(starts) - 1)
           \o sub_rule_lines(text, RunEnd(text, Min(starts), {" ", "\t", "-"}) + 1)

\* re.sub(r'#+\s*', '', text)
RECURSIVE sub_hashes(_, _)
sub_hashes(text, pos) ==
  LET starts == {i \in pos..Len(text) : text[i] = "#"}
  IN  IF starts = {} THEN SubSeq(text, pos, Len(text))
      ELSE LET i == Min(starts)
               h == RunEnd(text, i, {"#"})
           IN  SubSeq(text, pos, i - 1) \o sub_hashes(text, RunEnd(text, h + 1, WS) + 1)

\* re.sub(d (.*?) d, r'\1', text) for a delimiter d: '\*\*' or '\*'
RECURSIVE sub_emphasis(_, _, _)
sub_emphasis(text, d, pos) ==
  LET n == Len(d)
      Close(i) == {j \in (i + n)..Len(text) :
                     StartsWith(text, j, d) /\ NoNewline(text, i + n, j - 1)}
      starts == {i \in pos..Len(text) : StartsWith(text, i, d) /\ Close(i) # {}}
  IN  IF starts = {} THEN SubSeq(text, pos, Len(text))
      ELSE LET i == Min(starts)
               j == Min(Close(i))
           IN  SubSeq(text, pos, i - 1) \o SubSeq(text, i + n, j - 1)
               \o sub_emphasis(text, d, j + n)

\* the number of backquotes, at most three, that start at i
Ticks(text, i) ==
  IF i > Len(text) THEN 0
  ELSE LET e == RunEnd(text, i, {"U+0060"}) IN IF e - i + 1 > 3 THEN 3 ELSE e - i + 1

\* re.sub(r'`{1,3}(.*?)`{1,3}', r'\1', text): the opening run is greedy and
\* gives back, the content is lazy, the closing run is greedy
RECURSIVE sub_code(_, _)
sub_code(text, pos) ==
  LET Close(i, n) == {j \in (i + n)..Len(text) :
                        text[j] = "U+0060" /\ NoNewline(text, i + n, j - 1)}
      Opens(i) == {n \in 1..Ticks(text, i) : Close(i, n) # {}}
      starts == {i \in pos..Len(text) : text[i] = "U+0060" /\ Opens(i) # {}}
  IN  IF starts = {} THEN SubSeq(text, pos, Len(text))
      ELSE LET i == Min(starts)
               n == Max(Opens(i))
               j == Min(Close(i, n))
           IN  SubSeq(text, pos, i - 1) \o SubSeq(text, i + n, j - 1)
               \o sub_code(text, j + Ticks(text, j))

\* re.sub(r'!\[.*?\]\(.*?\)', '', text)
RECURSIVE sub_images(_, _)
sub_images(text, pos) ==
  LET Ends(j) == {k \in (j + 2)..Len(text) :
                    text[k] = ")" /\ NoNewline(text, j + 2, k - 1)}
      Mids(i) == {j \in (i + 2)..Len(text) :
                    /\ StartsWith(text, j, <<"]", "(">>)
                    /\ NoNewline(text, i + 2, j - 1)
                    /\ Ends(j) # {}}
      starts == {i \in pos..Len(text) :
                   StartsWith(text, i, <<"!", "[">>) /\ Mids(i) # {}}
  IN  IF starts = {} THEN SubSeq(text, pos, Len(text))
      ELSE LET i == Min(starts)
               k == Min(Ends(Min(Mids(i))))
           IN  SubSeq(text, pos, i - 1) \o sub_images(text, k + 1)

\* re.sub(r'\[([^\]]+)\]\([^\)]+\)', r'\1', text)
RECURSIVE sub_links(_, _)
sub_links(text, pos) ==
  LET Mid(i) == RunEnd(text, i + 1, {c \in {text[k] : k \in 1..Len(text)} : c # "]"}) + 1
      End(i) == RunEnd(text, Mid(i) + 2,
                       {c \in {text[k] : k \in 1..Len(text)} : c # ")"}) + 1
      Link(i) == /\ text[i] = "["
                 /\ Mid(i) >= i + 2
                 /\ StartsWith(text, Mid(i), <<"]", "(">>)
                 /\ End(i) >= Mid(i) + 3
                 /\ End(i) <= Len(text)
      starts == {i \in pos..Len(text) : Link(i)}
  IN  IF starts = {} THEN SubSeq(text, pos, Len(text))
      ELSE LET i == Min(starts)
           IN  SubSeq(text, pos, i - 1) \o SubSeq(text, i + 1, Mid(i) - 1)
               \o sub_links(text, End(i) + 1)

\* re.sub(r'\n{3,}', '\n\n', text)
RECURSIVE sub_newlines(_, _)
sub_newlines(text, pos) ==
  LET starts == {i \in pos..Len(text) :
                   text[i] = "\n" /\ RunEnd(text, i, {"\n"}) >= i + 2}
  IN  IF starts = {} THEN SubSeq(text, pos, Len(text))
      ELSE SubSeq(text, pos, Min(starts) - 1) \o <<"\n", "\n">>
           \o sub_newlines(text, RunEnd(text, Min(starts), {"\n"}) + 1)

\* re.sub(r'^- ', bullet + ' ', text, flags=re.MULTILINE), the bullet U+2022
sub_bullets(text) ==
  [i \in 1..Len(text) |->
     IF AtLineStart(text, i) /\ StartsWith(text, i, <<"-", " ">>)
     THEN "U+2022" ELSE text[i]]

clean_markdown(text) ==
  LET t1 == sub_rule_lines(text, 1)
      t2 == sub_hashes(t1, 1)
      t3 == sub_emphasis(t2, <<"*", "*">>, 1)
      t4 == sub_emphasis(t3, <<"*">>, 1)
      t5 == sub_code(t4, 1)
      t6 == sub_images(t5, 1)
      t7 == sub_links(t6, 1)
      t8 == sub_newlines(t7, 1)
      t9 == sub_bullets(t8)
  IN  strip(t9)

\* texts of at most MaxFrags fragments
MaxFrags == 3

\* the markdown a completion is made of
Fragments ==
  { <<" ">>, <<"-", " ">>, <<"a">>, <<"\n">>, <<"*">>, <<"*", "*">>,
    <<"#", " ">>, <<"U+0060">>, <<"-", "-", "-">>,
    <<"!", "[", "a", "]", "(", "b", ")">>, <<"[", "a", "]", "(", "b", ")">> }

RECURSIVE concat(_)
concat(parts) == IF parts = <<>> THEN <<>> ELSE Head(parts) \o concat(Tail(parts))

CleanInputs(maxFrags) ==
  {[fn |-> "clean", text |-> concat(fs)] :
     fs \in UNION {[1..n -> Fragments] : n \in 0..maxFrags}}

InitClean ==
  /\ AppIdle
  /\ inp \in CleanInputs(MaxFrags)
  /\ out = NotRun

DoClean ==
  /\ inp.fn = "clean"
  /\ out = NotRun
  /\ out' = [fn |-> "clean", text |-> clean_markdown(inp.text)]
  /\ UNCHANGED <<session, disk, ui, pc, requested, inp>>

NextClean == DoClean

SpecClean == InitClean /\ [][NextClean]_vars

\* C4: clean_markdown is idempotent: applied to its own result it returns it
C4_Idempotent == out.fn = "clean" => clean_markdown(out.text) = out.text

\* ------------------------------------------------------------------------
\* Python floats (IEEE 754 binary64, round to nearest, ties to even).  TLC's
\* integers have 32 bits, so a significand is a natural number written in
\* limbs of 15 bits (digits in base 32768), least significant first and
\* without leading zero limbs (<<>> is 0).  A double is Dbl(neg, m, e), worth (-1)^neg * m * 2^e,
\* with m of 53 bits, or <<>> for the zeros (e = 0).  Overflow, subnormals,
\* infinities and NaN are out of the figures of a valuation and not modelled.
\* ------------------------------------------------------------------------

Limb(a, i) == IF i <= Len(a) THEN a[i] ELSE 0

RECURSIVE Norm(_)
Norm(a) ==
  IF a = <<>> THEN a
  ELSE IF a[Len(a)] = 0 THEN Norm(SubSeq(a, 1, Len(a) - 1)) ELSE a

RECURSIVE NatLimbs(_)
NatLimbs(n) == IF n = 0 THEN <<>> ELSE <<n % 32768>> \o NatLimbs(n \div 32768)

RECURSIVE NatOf(_)
NatOf(a) == IF a = <<>> THEN 0 ELSE Head(a) + 32768 * NatOf(Tail(a))

RECURSIVE AddCarry(_, _, _, _)
AddCarry(a, b, i, carry) ==
  IF i > Len(a) /\ i > Len(b) THEN (IF carry = 0 THEN <<>> ELSE <<carry>>)
  ELSE <<(Limb(a, i) + Limb(b, i) + carry) % 32768>>
       \o AddCarry(a, b, i + 1, (Limb(a, i) + Limb(b, i) + carry) \div 32768)

AddN(a, b) == AddCarry(a, b, 1, 0)

\* a - b for a >= b
RECURSIVE SubBorrow(_, _, _, _)
SubBorrow(a, b, i, borrow) ==
  IF i > Len(a) THEN <<>>
  ELSE <<(32768 + a[i] - Limb(b, i) - borrow) % 32768>>
       \o SubBorrow(a, b, i + 1, IF a[i] - Limb(b, i) - borrow < 0 THEN 1 ELSE 0)

SubN(a, b) == Norm(SubBorrow(a, b, 1, 0))

RECURSIVE CmpAt(_, _, _)
CmpAt(a, b, i) ==
  IF i = 0 THEN 0
  ELSE IF a[i] > b[i] THEN 1
  ELSE IF a[i] < b[i] THEN 0 - 1
  ELSE CmpAt(a, b, i - 1)

\* 1, 0 or -1 as a > b, a = b or a < b
CmpN(a, b) ==
  IF Len(a) > Len(b) THEN 1
  ELSE IF Len(a) < Len(b) THEN 0 - 1
  ELSE CmpAt(a, b, Len(a))

\* a * k + carry for 0 < k <= 32768, from limb i on
RECURSIVE MulSmall(_, _, _, _)
MulSmall(a, k, i, carry) ==
  IF i > Len(a) THEN (IF carry = 0 THEN <<>> ELSE <<carry>>)
  ELSE <<(a[i] * k + carry) % 32768>>
       \o MulSmall(a, k, i + 1, (a[i] * k + carry) \div 32768)

ShiftLimbs(a, n) == IF a = <<>> THEN a ELSE [i \in 1..n |-> 0] \o a

RECURSIVE MulAcc(_, _, _)
MulAcc(a, b, i) ==
  IF i > Len(b) THEN <<>>
  ELSE AddN(IF b[i] = 0 THEN <<>> ELSE MulSmall(a, b[i], 1, 0),
            ShiftLimbs(MulAcc(a, b, i + 1), 1))

MulN(a, b) == MulAcc(a, b, 1)

\* the quotient of a's limbs 1..i by d (0 < d <= 32768), rem carried in
RECURSIVE DivSmallAt(_, _, _, _)
DivSmallAt(a, d, i, rem) ==
  IF i = 0 THEN <<>>
  ELSE DivSmallAt(a, d, i - 1, (rem * 32768 + a[i]) % d)
       \o <<(rem * 32768 + a[i]) \div d>>

RECURSIVE ModSmallAt(_, _, _, _)
ModSmallAt(a, d, i, rem) ==
  IF i = 0 THEN rem ELSE ModSmallAt(a, d, i - 1, (rem * 32768 + a[i]) % d)

DivSmall(a, d) == Norm(DivSmallAt(a, d, Len(a), 0))

ModSmall(a, d) == ModSmallAt(a, d, Len(a), 0)

\* a * 2^k
ShlN(a, k) == ShiftLimbs(MulSmall(a, 2 ^ (k % 15), 1, 0), k \div 15)

\* a \div 2^k
ShrN(a, k) ==
  IF k \div 15 >= Len(a) THEN <<>>
  ELSE DivSmall(SubSeq(a, (k \div 15) + 1, Len(a)), 2 ^ (k % 15))

\* the number of bits of a
BitLen(a) ==
  IF a = <<>> THEN 0
  ELSE 15 * (Len(a) - 1)
       + (CHOOSE n \in 1..15 : 2 ^ (n - 1) <= a[Len(a)] /\ a[Len(a)] < 2 ^ n)

\* the number of zero limbs at the low end of a # 0
ZeroLimbs(a) == CHOOSE k \in 0..(Len(a) - 1) : a[k + 1] # 0 /\ \A j \in 1..k : a[j] = 0

\* the number of zero bits at the low end of a limb # 0
ZeroBits(limb) == CHOOSE n \in 0..(15 - 1) : limb % (2 ^ (n + 1)) = 2 ^ n

\* the number of zero bits at the low end of a # 0
TrailingZeros(a) == 15 * ZeroLimbs(a) + ZeroBits(a[ZeroLimbs(a) + 1])

\* the greatest digit d, from bit on and above acc, with d * b <= rem
RECURSIVE QDigit(_, _, _, _)
QDigit(rem, b, bit, acc) ==
  IF bit < 0 THEN acc
  ELSE IF CmpN(MulSmall(b, acc + 2 ^ bit, 1, 0), rem) <= 0
  THEN QDigit(rem, b, bit - 1, acc + 2 ^ bit)
  ELSE QDigit(rem, b, bit - 1, acc)

\* one step of the long division: quotient q so far, digit d next
DivDigit(q, rem, b, d) ==
  [q |-> IF q = <<>> /\ d = 0 THEN <<>> ELSE <<d>> \o q,
   r |-> IF d = 0 THEN rem ELSE SubN(rem, MulSmall(b, d, 1, 0))]

\* the remainder so far takes the next limb of the dividend
DivStep(prev, limb, b) ==
  DivDigit(prev.q, Norm(<<limb>> \o prev.r), b,
           QDigit(Norm(<<limb>> \o prev.r), b, 15 - 1, 0))

\* the division by b of the number that a's limbs from i on make
RECURSIVE DivLimbs(_, _, _)
DivLimbs(a, b, i) ==
  IF i > Len(a) THEN [q |-> <<>>, r |-> <<>>]
  ELSE DivStep(DivLimbs(a, b, i + 1), a[i], b)

\* [q |-> a \div b, r |-> a % b]
DivModN(a, b) ==
  IF Len(b) = 1
  THEN [q |-> DivSmall(a, b[1]), r |-> NatLimbs(ModSmall(a, b[1]))]
  ELSE DivLimbs(a, b, 1)

\* q or q + 1: the nearest integer to a number whose integer part is q and
\* whose fraction compares to one half as c says; a tie goes to the even one
RoundUpIf(q, c) ==
  IF c > 0 \/ (c = 0 /\ Limb(q, 1) % 2 = 1) THEN AddN(q, <<1>>) ELSE q

\* the nearest integer to a / 2^k (k > 0), q being a \div 2^k
RoundShiftQ(a, q, k) ==
  RoundUpIf(q, CmpN(SubN(a, ShlN(q, k)), ShlN(<<1>>, k - 1)))

\* the nearest integer to a * 2^(-k)
RoundShift(a, k) == IF k <= 0 THEN ShlN(a, 0 - k) ELSE RoundShiftQ(a, ShrN(a, k), k)

Dbl(neg, m, e) == [neg |-> neg, m |-> m, e |-> IF m = <<>> THEN 0 ELSE e]

\* a rounding that carried into bit 54 gives a power of two
Renorm(neg, m, e) == IF BitLen(m) > 53 THEN Dbl(neg, ShrN(m, 1), e + 1) ELSE Dbl(neg, m, e)

RoundedAt(neg, m, e, k) == Renorm(neg, RoundShift(m, k), e + k)

\* the double nearest to (-1)^neg * m * 2^e
Rounded(neg, m, e) == RoundedAt(neg, m, e, BitLen(m) - 53)

\* float(n) of an int
FromInt(n) == Rounded(n < 0, NatLimbs(IF n < 0 THEN 0 - n ELSE n), 0)

FNeg(x) == Dbl(~x.neg, x.m, x.e)

\* x * y
FMul(x, y) == Rounded(x.neg # y.neg, MulN(x.m, y.m), x.e + y.e)

\* the sum of two non-zero doubles whose significands are aligned at 2^e; an
\* exact zero is +0.0
AddAligned(xneg, xm, yneg, ym, e) ==
  IF xneg = yneg THEN Rounded(xneg, AddN(xm, ym), e)
  ELSE IF CmpN(xm, ym) = 0 THEN Dbl(FALSE, <<>>, 0)
  ELSE IF CmpN(xm, ym) > 0 THEN Rounded(xneg, SubN(xm, ym), e)
  ELSE Rounded(yneg, SubN(ym, xm), e)

AddAt(x, y, e) == AddAligned(x.neg, ShlN(x.m, x.e - e), y.neg, ShlN(y.m, y.e - e), e)

\* x + y
FAdd(x, y) ==
  IF x.m = <<>> /\ y.m = <<>> THEN Dbl(x.neg /\ y.neg, <<>>, 0)
  ELSE IF x.m = <<>> THEN y
  ELSE IF y.m = <<>> THEN x
  ELSE AddAt(x, y, IF x.e < y.e THEN x.e ELSE y.e)

\* x - y
FSub(x, y) == FAdd(x, FNeg(y))

\* the quotient with one more bit that tells whether a remainder was left, so
\* that the rounding sees no false tie
WithSticky(neg, qr, e) ==
  Rounded(neg, MulSmall(qr.q, 2, 1, IF qr.r = <<>> THEN 0 ELSE 1), e - 1)

\* x.m * 2^s / d * 2^(x.e - s - t), d the odd part of y's significand
DivOdd(x, neg, d, t, s) == WithSticky(neg, DivModN(ShlN(x.m, s), d), x.e - s - t)

DivBy(x, y, t) == DivOdd(x, x.neg # y.neg, ShrN(y.m, t), y.e + t, 56 - t)

\* x / y, y # 0
FDiv(x, y) ==
  IF x.m = <<>> THEN Dbl(x.neg # y.neg, <<>>, 0)
  ELSE DivBy(x, y, TrailingZeros(y.m))

\* float of the decimal h / 100
FromHundredths(h) == FDiv(FromInt(h), FromInt(100))

\* abs(x) * 10^d (d <= 4) to the nearest integer, a tie to the even one: the
\* digits that round(x, d) and the format "{x:.df}" keep
RoundDec(x, d) ==
  IF x.m = <<>> THEN <<>>
  ELSE RoundShift(MulSmall(x.m, 10 ^ d, 1, 0), 0 - x.e)

\* ------------------------------------------------------------------------
\* Peer lookups (src/app.py:232-257) and peer averaging (src/app.py:339-364).
\* A multiple, as the service's JSON writes it and as str() prints it, is the
\* integer number of its hundredths, standing for the double nearest to that
\* decimal; None, where a float or a text is expected, is a value of its own.
\* ------------------------------------------------------------------------

\* None in place of a text
None == <<"None">>

\* bool(t) of a text or None
Truthy(t) == t # None /\ t # <<>>

\* None in place of a float
NoFloat == [none |-> TRUE, val |-> 0]

Float(h) == [none |-> FALSE, val |-> h]

UpperOrDot == DOMAIN LowerOf \cup {"."}

\* re.sub(r'[^A-Z\.]', '', ticker)
RECURSIVE sanitize(_)
sanitize(t) ==
  IF t = <<>> THEN <<>>
  ELSE (IF Head(t) \in UpperOrDot THEN <<Head(t)>> ELSE <<>>) \o sanitize(Tail(t))

\* resolve_company_to_ticker, given what the completion service does: it
\* raises (response.ok FALSE), or answers with a message content
resolve_company_to_ticker(company_name, response) ==
  IF ~response.ok THEN None
  ELSE sanitize(strip(response.content))

\* get_ev_ebitda_multiple, given what the market-data service does:
\*   kind "error"   requests.get or r.json() raises
\*   kind "empty"   the JSON is the empty list
\*   kind "object"  the JSON is not a list (an error message object)
\*   kind "list"    the JSON is a non-empty list whose first item is "number"
\*                  (the key holds value), "missing" (no such key) or "null"
get_ev_ebitda_multiple(ticker, response) ==
  IF response.kind = "error" THEN Float(0)
  ELSE IF response.kind = "list"
       THEN (IF response.item = "number" THEN Float(response.value)  \* float(v)
             ELSE IF response.item = "missing" THEN Float(0)         \* float(0)
             ELSE Float(0))                    \* float(None) raises: except
       ELSE NoFloat                            \* no return statement is reached

\* [n.strip() for n in raw.split(",") if n.strip()]
RECURSIVE StrippedNonBlank(_, _)
StrippedNonBlank(parts, i) ==
  IF i > Len(parts) THEN <<>>
  ELSE (IF NonBlank(parts[i]) THEN <<strip(parts[i])>> ELSE <<>>)
       \o StrippedNonBlank(parts, i + 1)

peer_names_of(raw) == StrippedNonBlank(split(raw, ","), 1)

\* sum(mults): the floats are added to the int 0 one after the other, each
\* addition rounded
RECURSIVE sum_floats(_, _, _)
sum_floats(mults, i, acc) ==
  IF i > Len(mults) THEN acc
  ELSE sum_floats(mults, i + 1, FAdd(acc, FromHundredths(mults[i].val)))

\* round(x, 2): the hundredths of the decimal nearest to the double x
round_2(x) == IF x.neg THEN 0 - NatOf(RoundDec(x, 2)) ELSE NatOf(RoundDec(x, 2))

\* round(sum(mults) / len(mults), 2)
mean_rounded(mults) ==
  Float(round_2(FDiv(sum_floats(mults, 1, FromInt(0)), FromInt(Len(mults)))))

\* sum(mults) raises TypeError when a None is among them
SumRaises(mults) == \E i \in 1..Len(mults) : mults[i].none

\* round(sum(mults) / len(mults), 2) if mults else None
average(mults) == IF mults = <<>> THEN NoFloat ELSE mean_rounded(mults)

\* mults = [get_ev_ebitda_multiple(t, fmp_key) for t in tickers if t]: the
\* k-th call of the service is answered by ev[k]
RECURSIVE MultsOf(_, _, _, _)
MultsOf(tickers, i, ev, k) ==
  IF i > Len(tickers) THEN <<>>
  ELSE IF Truthy(tickers[i])
       THEN <<get_ev_ebitda_multiple(tickers[i], ev[k])>>
            \o MultsOf(tickers, i + 1, ev, k + 1)
       ELSE MultsOf(tickers, i + 1, ev, k)

\* process_peers(raw): res[k] answers the k-th resolve_company_to_ticker call,
\* ev[k] the k-th get_ev_ebitda_multiple call
process_peers(raw, res, ev) ==
  LET names   == peer_names_of(raw)
      tickers == [i \in 1..Len(names) |-> resolve_company_to_ticker(names[i], res[i])]
      mults   == MultsOf(tickers, 1, ev, 1)
  IN  IF SumRaises(mults)
      THEN [raised |-> TRUE, names |-> names, tickers |-> tickers,
            mults |-> mults, avg |-> NoFloat]
      ELSE [raised |-> FALSE, names |-> names, tickers |-> tickers,
            mults |-> mults, avg |-> average(mults)]

\* peer_tickers = [resolve_company_to_ticker(n) for n in peer_names
\*                 if resolve_company_to_ticker(n)]:
\* each name is resolved for the test and, when the test passes, once more for
\* the value; res[c] answers the c-th call
RECURSIVE PeerTickers(_, _, _, _)
PeerTickers(names, i, res, c) ==
  IF i > Len(names) THEN <<>>
  ELSE IF Truthy(resolve_company_to_ticker(names[i], res[c]))
       THEN <<resolve_company_to_ticker(names[i], res[c + 1])>>
            \o PeerTickers(names, i + 1, res, c + 2)
       ELSE PeerTickers(names, i + 1, res, c + 1)

\* [m for m in raw_mults if isinstance(m, (int, float))]
RECURSIVE Numeric(_)
Numeric(raw_mults) ==
  IF raw_mults = <<>> THEN <<>>
  ELSE (IF Head(raw_mults).none THEN <<>> ELSE <<Head(raw_mults)>>)
       \o Numeric(Tail(raw_mults))

\* the "Let AI choose peers" branch from ai_text to avg_mult (src/app.py:360-364)
ai_peer_multiples(ai_text, res, ev) ==
  LET peer_names   == peer_names_of(ai_text)
      peer_tickers == PeerTickers(peer_names, 1, res, 1)
      raw_mults    == [i \in 1..Len(peer_tickers) |->
                         get_ev_ebitda_multiple(peer_tickers[i], ev[i])]
      peer_mults   == Numeric(raw_mults)
  IN  [raised |-> FALSE, names |-> peer_names, tickers |-> peer_tickers,
       mults |-> peer_mults, avg |-> average(peer_mults)]

\* ------------------------------------------------------------------------
\* The peer averaging as a function of the peer list and of what the services
\* answer
\* ------------------------------------------------------------------------

\* at most MaxPeers peer names
MaxPeers == 2

\* the k-th peer name
PeerName(k) == [i \in 1..k |-> "P"]

PeerList(n) == [k \in 1..n |-> PeerName(k)]

\* the user's comma-separated text: plain, and with blanks and an empty entry
RawPeers(n) ==
  {join(<<",">>, PeerList(n)), join(<<",", " ">>, PeerList(n)) \o <<",", " ">>}

\* what the model answers with the peers it proposes
AiText(n) == join(<<",", " ">>, PeerList(n))

Raises == [ok |-> FALSE, content |-> <<>>]

Answers(content) == [ok |-> TRUE, content |-> content]

\* the ticker service: it raises, answers a ticker, or answers text that holds
\* no ticker
ResolveResponses == {Raises, Answers(<<" ", "T", "K", "R">>), Answers(<<"n", "/", "a">>)}

AiResolveResponses == {Raises, Answers(<<" ", "T", "K", "R">>)}

EvResponse(kind, item, value) == [kind |-> kind, item |-> item, value |-> value]

\* the market-data service: multiples 8.0, 8.01 and 10.0 and its failures
EvResponses ==
  {EvResponse("error", "none", 0), EvResponse("empty", "none", 0),
   EvResponse("list", "missing", 0), EvResponse("list", "number", 800),
   EvResponse("list", "number", 801), EvResponse("list", "number", 1000)}

AiEvResponses ==
  {EvResponse("error", "none", 0), EvResponse("empty", "none", 0),
   EvResponse("list", "number", 800), EvResponse("list", "number", 801),
   EvResponse("list", "number", 1000)}

PeersInputs(maxPeers) ==
  UNION {{[fn |-> "process_peers", n |-> n, raw |-> raw, res |-> res, ev |-> ev] :
            raw \in RawPeers(n), res \in [1..n -> ResolveResponses],
            ev \in [1..n -> EvResponses]} : n \in 0..maxPeers}
  \cup
  UNION {{[fn |-> "ai_peers", n |-> n, raw |-> AiText(n), res |-> res, ev |-> ev] :
            res \in [1..(2 * n) -> AiResolveResponses],
            ev \in [1..n -> AiEvResponses]} : n \in 0..maxPeers}

InitPeers ==
  /\ AppIdle
  /\ inp \in PeersInputs(MaxPeers)
  /\ out = NotRun

DoProcessPeers ==
  /\ inp.fn = "process_peers"
  /\ out = NotRun
  /\ out' = [fn |-> "process_peers", peers |-> process_peers(inp.raw, inp.res, inp.ev)]
  /\ UNCHANGED <<session, disk, ui, pc, requested, inp>>

DoAiPeers ==
  /\ inp.fn = "ai_peers"
  /\ out = NotRun
  /\ out' = [fn |-> "ai_peers", peers |-> ai_peer_multiples(inp.raw, inp.res, inp.ev)]
  /\ UNCHANGED <<session, disk, ui, pc, requested, inp>>

NextPeers == DoProcessPeers \/ DoAiPeers

SpecPeers == InitPeers /\ [][NextPeers]_vars

PeersRan == out.fn \in {"process_peers", "ai_peers"}

\* C7: whatever each peer's ticker resolution and multiple lookup do, the peer
\* averaging completes without raising
C7_PeerFailuresAbsorbed == PeersRan => ~out.peers.raised

IsMultiple(response) == response.kind = "list" /\ response.item = "number"

\* the multiples of the peers whose ticker resolved and whose lookup returned a
\* multiple, in process_peers: peer i is resolved by res[i], and the k-th
\* resolved peer is looked up by ev[k]
RECURSIVE ResolvedMultiples(_, _, _, _, _)
ResolvedMultiples(n, i, res, ev, k) ==
  IF i > n THEN <<>>
  ELSE IF Truthy(resolve_company_to_ticker(PeerName(i), res[i]))
       THEN (IF IsMultiple(ev[k]) THEN <<Float(ev[k].value)>> ELSE <<>>)
            \o ResolvedMultiples(n, i + 1, res, ev, k + 1)
       ELSE ResolvedMultiples(n, i + 1, res, ev, k)

\* the same in the AI branch: a peer is kept by one call of the ticker service
\* (res[c]) and named by the next (res[c + 1]); the k-th kept peer is looked up
\* by ev[k]
RECURSIVE AiResolvedMultiples(_, _, _, _, _, _)
AiResolvedMultiples(n, i, res, c, ev, k) ==
  IF i > n THEN <<>>
  ELSE IF Truthy(resolve_company_to_ticker(PeerName(i), res[c]))
       THEN (IF Truthy(resolve_company_to_ticker(PeerName(i), res[c + 1]))
                /\ IsMultiple(ev[k])
             THEN <<Float(ev[k].value)>> ELSE <<>>)
            \o AiResolvedMultiples(n, i + 1, res, c + 2, ev, k + 1)
       ELSE AiResolvedMultiples(n, i + 1, res, c + 1, ev, k)

\* the arithmetic mean, to the hundredth, of multiples; None of no multiple
MeanOf(ms) == IF ms = <<>> THEN NoFloat ELSE mean_rounded(ms)

\* C8: the peer average is the arithmetic mean of the multiples of the peers
\* whose ticker and multiple lookups both succeeded; a failed peer counts in
\* neither the sum nor the count
C8_MeanOfResolvedOnly ==
  (PeersRan /\ ~out.peers.raised) =>
    out.peers.avg =
      MeanOf(IF out.fn = "process_peers"
             THEN ResolvedMultiples(inp.n, 1, inp.res, inp.ev, 1)
             ELSE AiResolvedMultiples(inp.n, 1, inp.res, 1, inp.ev, 1))

\* C14: in the "Let AI choose peers" path every identifier handed to the
\* multiple lookup is a ticker a resolution returned, never None and never the
\* empty text, so that as many multiples are requested as peers resolved
C14_LookupsGetTickers ==
  out.fn = "ai_peers" =>
    /\ \A i \in 1..Len(out.peers.tickers) : Truthy(out.peers.tickers[i])
    /\ Len(out.peers.tickers)
         = Cardinality({i \in 1..Len(out.peers.tickers) : Truthy(out.peers.tickers[i])})

\* ------------------------------------------------------------------------
\* Infographic (src/app.py:194-205, 535-605).  The page is the sequence of its
\* cards; icons are written as their code points.
\* ------------------------------------------------------------------------

Meta(icon, border_class, bg_class) ==
  [icon |-> icon, border_class |-> border_class, bg_class |-> bg_class]

FALLBACK_META ==
  << Meta(<<"U+1F4BC">>, "border-blue-600", "bg-blue-50"),
     Meta(<<"U+1F3E2">>, "border-sky-600", "bg-sky-50"),
     Meta(<<"U+1F310">>, "border-indigo-600", "bg-indigo-50"),
     Meta(<<"U+1F9E9">>, "border-purple-600", "bg-purple-50"),
     Meta(<<"U+1F4CA">>, "border-green-600", "bg-green-50"),
     Meta(<<"U+1F4C8">>, "border-emerald-600", "bg-emerald-50"),
     Meta(<<"U+1F465">>, "border-yellow-600", "bg-yellow-50"),
     Meta(<<"U+26A0", "U+FE0F">>, "border-red-600", "bg-red-50"),
     Meta(<<"U+1F4A1">>, "border-pink-600", "bg-pink-50"),
     Meta(<<"U+1F9E0">>, "border-gray-600", "bg-gray-50") >>

\* summarize_section_with_deepseek, given what the completion service does: it
\* raises an error with a message, or answers with a message content
summarize_section_with_deepseek(section_title, section_text, response) ==
  IF response.ok THEN [raised |-> FALSE, value |-> strip(response.content)]
  ELSE [raised |-> TRUE, value |-> response.content]

\* str.replace(d, ''): every occurrence of d, left to right, is removed
RECURSIVE remove_all(_, _)
remove_all(text, d) ==
  LET P == {i \in 1..Len(text) : StartsWith(text, i, d)}
  IN  IF P = {} THEN text
      ELSE SubSeq(text, 1, Min(P) - 1)
           \o remove_all(SubSeq(text, Min(P) + Len(d), Len(text)), d)

\* line.lstrip(chars)
lstrip_chars(line, chars) == SubSeq(line, RunEnd(line, 1, chars) + 1, Len(line))

\* [line.lstrip(bullet + "*- ").strip() for line in ... if line.strip()]
RECURSIVE BulletLines(_, _)
BulletLines(lines, i) ==
  IF i > Len(lines) THEN <<>>
  ELSE (IF NonBlank(lines[i])
        THEN <<strip(lstrip_chars(lines[i], {"U+2022", "*", "-", " "}))>>
        ELSE <<>>)
       \o BulletLines(lines, i + 1)

\* the list items of a summary
summary_bullets(summary) ==
  LET cleaned_summary ==
        remove_all(remove_all(remove_all(remove_all(summary, <<"*", "*">>),
          <<"#", "#", "#">>), <<"#", "#">>), <<"#">>)
  IN  BulletLines(split(cleaned_summary, "\n"), 1)

ErrorGeneratingSummary ==
  <<"E","r","r","o","r"," ","g","e","n","e","r","a","t","i","n","g"," ",
    "s","u","m","m","a","r","y",":"," ">>

\* a palette that does not cycle: past its end every card gets the last entry
card_meta_clamped(idx) ==
  FALLBACK_META[IF idx + 1 > Len(FALLBACK_META) THEN Len(FALLBACK_META) ELSE idx + 1]

\* FALLBACK_META[idx % len(FALLBACK_META)], idx counted from 0
card_meta(idx) == FALLBACK_META[(idx % Len(FALLBACK_META)) + 1]

\* the try/except around one section's summary
card_bullets(title, section_text, response) ==
  LET r == summarize_section_with_deepseek(title, section_text, response)
  IN  IF r.raised THEN <<ErrorGeneratingSummary \o r.value>>
      ELSE summary_bullets(r.value)

\* one pass of the loop: the card of the item at idx, counted from 0
infographic_card(idx, section, response) ==
  [meta    |-> card_meta(idx),
   title   |-> section[1],
   bullets |-> card_bullets(section[1], section[2], response)]

\* section maps of at most MaxSections sections
MaxSections == 11

Ok == <<"o", "k">>

\* a summary of the section titled t: two marked-up bullets
SummaryOf(t) ==
  <<"-", " ", "*", "*">> \o t \o <<"*", "*", "\n", "\n", "U+2022", " ", "#", "#", " ">>
  \o Ok \o <<" ">>

ServiceError == <<"5", "0", "3">>

\* the first n titles of the outline of S with filler content
FirstSections(S, n) == [i \in 1..n |-> <<RegistryTitles[S][i], Foo>>]

\* what the completion service does for each section: the sections at the
\* positions in failing get an error
SummaryResponses(sections, failing) ==
  [i \in 1..Len(sections) |->
     IF i \in failing THEN [ok |-> FALSE, content |-> ServiceError]
     ELSE [ok |-> TRUE, content |-> SummaryOf(sections[i][1])]]

\* every subset of the sections is tried on maps of at most MaxSubsetSections
\* sections
MaxSubsetSections == 4

\* the sets of sections whose summary call raises, of n sections: every
\* subset, or on a longer map none, the first, the last, both, all but the last
FailingChoices(n, maxSubset) ==
  IF n <= maxSubset THEN SUBSET (1..n)
  ELSE {{}, {1}, {n}, {1, n}, 1..(n - 1)}

InfographicInputs(maxSections) ==
  UNION {LET sections == FirstSections(S, n)
         IN  {[fn |-> "infographic", company_name |-> Acme, sections |-> sections,
               failing |-> F, responses |-> SummaryResponses(sections, F)] :
                F \in FailingChoices(n, MaxSubsetSections)} :
           n \in 1..maxSections, S \in {MergersAcquisitions}}

\* A script run.  Streamlit executes the script from its first line on every
\* button press and on every other widget change.  While a run is in progress
\* a further change or a stop is recorded as a request, and the run ends at
\* its next element call (st.warning, st.success, st.spinner, ...) with a
\* RerunException or a StopException; these are no Exception, so that the
\* handlers' except clauses (src/app.py:674, 710) do not catch them.  What
\* st.session_state and the disk hold by then stays.

\* an element a run has shown: a message and the text filled into it
Element(message, about) == [message |-> message, about |-> about]

InfographicPreview == "Infographic Preview"

SummaryWarning == "Could not summarize section"

\* the run is over, or was ended by a rerun request and the next is due
Ready == pc.at \in {"idle", "rerun"}

\* the element calls of the script outside the two handlers, in the order of
\* the script (src/app.py:25-688); 627 to 642 are the widgets of the valuation
\* module, 647 and 688 the two buttons.  The API keys are taken to be in the
\* secrets (71-85)
ScriptOrder ==
  <<"25", "67", "68", "611", "612", "614", "617", "619", "620", "627", "629",
    "638", "639", "642", "645", "647", "677", "680", "681", "683", "684", "685",
    "688">>

\* those element calls, and the two that end the handlers' spinners: the
\* `with` blocks of lines 651 and 692 are left, and the spinner is cleared
ScriptCalls ==
  {ScriptOrder[i] : i \in 1..Len(ScriptOrder)} \cup {"651 exit", "692 exit"}

\* the lines at which the next thing the run does is an element call; at 651,
\* 692 and 575 it is the spinner a wait is wrapped in, at 701 the end of the
\* spinner of 575 and st.subheader
ElementCalls ==
  {"649", "651", "666", "668", "675", "690", "692", "696", "698", "575", "585",
   "701", "702", "704", "711"} \cup ScriptCalls

\* the user changes a widget or stops the script while a run is in progress
Request ==
  /\ ~Ready
  /\ requested = "none"
  /\ requested' \in {"rerun", "stop"}
  /\ UNCHANGED <<session, disk, ui, pc, inp, out>>

\* an element call with a request pending ends the run: nothing more is shown
\* and no value is returned
Interrupt ==
  /\ pc.at \in ElementCalls
  /\ requested # "none"
  /\ pc' = IF requested = "rerun" THEN At("rerun") ELSE Idle
  /\ requested' = "none"
  /\ UNCHANGED <<session, disk, ui, inp, out>>

\* the line after one pass of the loop of build_infographic_html
AfterCard(idx, sections) == IF idx < Len(sections) THEN "579" ELSE "701"

\* the pass of the loop that p is in, with what the completion service does
CardAt(p, req) ==
  infographic_card(p.idx, p.sections[p.idx + 1],
                   SummaryResponses(p.sections, req.failing)[p.idx + 1])

\* one section's summary arrives (src/app.py:576-582, 587): its card is
\* written; or the call raises (583-584)
Summarize ==
  /\ pc.at \in {"575", "579"}
  /\ pc' = IF SummaryResponses(pc.sections, inp.failing)[pc.idx + 1].ok
           THEN [pc EXCEPT !.at = AfterCard(pc.idx + 1, pc.sections),
                           !.idx = pc.idx + 1,
                           !.cards = Append(pc.cards, CardAt(pc, inp))]
           ELSE [pc EXCEPT !.at = "585"]
  /\ UNCHANGED <<session, disk, ui, requested, inp, out>>

\* st.warning of a failed summary, then the card with the error (585-587)
WarnSummary ==
  /\ pc.at = "585"
  /\ requested = "none"
  /\ ui' = Append(ui, Element(SummaryWarning, pc.sections[pc.idx + 1][1]))
  /\ pc' = [pc EXCEPT !.at = AfterCard(pc.idx + 1, pc.sections),
                      !.idx = pc.idx + 1,
                      !.cards = Append(pc.cards, CardAt(pc, inp))]
  /\ UNCHANGED <<session, disk, requested, inp, out>>

\* build_infographic_html(company_name, sections) is called
InitInfographic ==
  /\ session = NoSession
  /\ disk = <<>>
  /\ ui = <<>>
  /\ requested = "none"
  /\ inp \in InfographicInputs(MaxSections)
  /\ pc = Position("575", inp.sections, 0, <<>>)
  /\ out = NotRun

\* the loop is over: the footer is added and html is returned (597-605)
DoBuildInfographic ==
  /\ inp.fn = "infographic"
  /\ pc.at = "701"
  /\ out' = [fn |-> "infographic",
             html |-> [title |-> inp.company_name, cards |-> pc.cards]]
  /\ pc' = Idle
  /\ UNCHANGED <<session, disk, ui, requested, inp>>

\* the element calls inside build_infographic_html: st.spinner when it is
\* entered (575), st.warning (585), and st.spinner when the loop is over and
\* it is left
InterruptBuild ==
  /\ pc.at \in {"575", "585", "701"}
  /\ Interrupt

NextInfographic ==
  \/ Summarize
  \/ WarnSummary
  \/ DoBuildInfographic
  \/ Request
  \/ InterruptBuild

SpecInfographic == InitInfographic /\ [][NextInfographic]_vars

\* the warnings shown for the sections at the positions in failing, in the
\* order of the sections
RECURSIVE WarningsOf(_, _, _)
WarningsOf(sections, failing, i) ==
  IF i > Len(sections) THEN <<>>
  ELSE (IF i \in failing THEN <<Element(SummaryWarning, sections[i][1])>> ELSE <<>>)
       \o WarningsOf(sections, failing, i + 1)

BuildReturned == out.fn = "infographic"

\* the page returned for the sections and the failing calls of request req
PageOf(req, page, shown) ==
  /\ Len(page.cards) = Len(req.sections)
  /\ shown = WarningsOf(req.sections, req.failing, 1)
  /\ \A i \in 1..Len(req.sections) :
       LET card == page.cards[i]
       IN  /\ card.title = req.sections[i][1]
           /\ card.meta = FALLBACK_META[((i - 1) % 10) + 1]
           /\ IF req.responses[i].ok
              THEN card.bullets = <<req.sections[i][1], Ok>>
              ELSE card.bullets = <<ErrorGeneratingSummary \o ServiceError>>

\* with no request pending the call is at a line from which it goes on: a
\* summary call that returns or raises, the warning, or the return
GoesOn(p, r) ==
  (p.at \notin {"idle", "rerun"} /\ r = "none") =>
    \/ p.at \in {"575", "579", "585"} /\ p.idx < Len(p.sections)
    \/ p.at = "701" /\ p.idx = Len(p.sections)

\* C9: whichever sections' summary calls raise, build_infographic_html still
\* returns a page: a failed summary never ends the call, which ends without a
\* page only when a rerun or stop request ends the whole run at one of its
\* element calls.  The returned page holds one card per section of the map,
\* in the map's order; the card of a section whose summary failed holds the
\* one placeholder bullet with the error, and a warning was shown for it;
\* every other card holds the bullets of its own summary; the card at
\* position i carries palette entry i mod the palette size
C9_OneCardPerSection ==
  [][/\ BuildReturned' => PageOf(inp, out'.html, ui')
     /\ (Ready' /\ ~BuildReturned') => (~Ready /\ requested # "none")
     /\ GoesOn(pc, requested)
     /\ GoesOn(pc', requested')]_vars

\* a page of more than ten cards was returned although summaries failed, one
\* of them before a summary that succeeded
C9_Witness ==
  /\ BuildReturned
  /\ Len(out.html.cards) > 10
  /\ ui # <<>>
  /\ \E i, j \in 1..Len(inp.sections) :
       /\ ~inp.responses[i].ok
       /\ inp.responses[j].ok
       /\ i < j

\* ------------------------------------------------------------------------
\* The valuation of the "Let AI choose peers" branch (src/app.py:294-308,
\* 360-387).  A figure that float() took from yfinance is Money(h, neg), a
\* number of hundredths (neg marks the float -0.0); the estimates computed from
\* the figures are doubles.
\* ------------------------------------------------------------------------

Money(h, neg) == [h |-> h, neg |-> neg /\ h = 0]

\* a key of yfinance's info: absent, present with None, or present with a number
Absent == [has |-> FALSE, null |-> FALSE, val |-> 0]

Null == [has |-> TRUE, null |-> TRUE, val |-> 0]

Num(n) == [has |-> TRUE, null |-> FALSE, val |-> n]

\* info.get(key, 0) or 0
get_or_0(field) == IF field.has /\ ~field.null THEN field.val ELSE 0

\* info.get("cashAndShortTermInvestments", info.get("cash", 0)) or 0
cash_of(info) ==
  IF info.cashAndShortTermInvestments.has
  THEN get_or_0(info.cashAndShortTermInvestments)
  ELSE get_or_0(info.cash)

\* fetch_fundamentals_yf, given what yfinance does: kind "error" (it raises),
\* "none" (info is None or empty) or "info" (a dictionary)
fetch_fundamentals_yf(ticker, response) ==
  IF response.kind = "info"
  THEN [market_cap |-> Money(100 * get_or_0(response.info.marketCap), FALSE),
        net_debt   |-> Money(100 * (get_or_0(response.info.totalDebt)
                                    - cash_of(response.info)), FALSE),
        ebitda     |-> Money(100 * get_or_0(response.info.ebitda), FALSE)]
  ELSE [market_cap |-> Money(0, FALSE), net_debt |-> Money(0, FALSE),
        ebitda |-> Money(0, FALSE)]

DigitChar == <<"0", "1", "2", "3", "4", "5", "6", "7", "8", "9">>

\* str(n) of a natural number
RECURSIVE Digits(_)
Digits(n) == IF n < 10 THEN <<DigitChar[n + 1]>>
             ELSE Digits(n \div 10) \o <<DigitChar[(n % 10) + 1]>>

\* the decimal digits of a natural number in limbs
RECURSIVE DecDigits(_)
DecDigits(a) ==
  IF Len(a) <= 1 THEN Digits(Limb(a, 1))
  ELSE DecDigits(DivSmall(a, 10)) \o <<DigitChar[ModSmall(a, 10) + 1]>>

\* the ',' option of format(): a comma before every group of three digits
RECURSIVE Commas(_)
Commas(digits) ==
  IF Len(digits) <= 3 THEN digits
  ELSE Commas(SubSeq(digits, 1, Len(digits) - 3)) \o <<",">>
       \o SubSeq(digits, Len(digits) - 2, Len(digits))

\* float(...) of a figure of fetch_fundamentals_yf
ToDouble(money) ==
  IF money.h = 0 THEN Dbl(money.neg, <<>>, 0) ELSE FromHundredths(money.h)

\* f"{x:,.0f}" of a double: the sign of the double, then the digits of its
\* nearest integer
format_comma_0f(x) ==
  (IF x.neg THEN <<"-">> ELSE <<>>) \o Commas(DecDigits(RoundDec(x, 0)))

\* the point before the last of the digits, a 0 before the point if need be
point_1(digits) ==
  (IF Len(digits) = 1 THEN <<"0">> ELSE SubSeq(digits, 1, Len(digits) - 1))
  \o <<".", digits[Len(digits)]>>

\* f"{x:.1f}" of a double
format_1f(x) == (IF x.neg THEN <<"-">> ELSE <<>>) \o point_1(DecDigits(RoundDec(x, 1)))

\* str(x) of a float that round(..., 2) or float(...) returned, x >= 0
float_str(h) ==
  Digits(h \div 100) \o <<".">>
  \o (IF h % 10 = 0 THEN <<DigitChar[((h % 100) \div 10) + 1]>>
      ELSE <<DigitChar[((h % 100) \div 10) + 1], DigitChar[(h % 10) + 1]>>)

\* str(peer_mults)
list_str(mults) ==
  <<"[">> \o join(<<",", " ">>, [i \in 1..Len(mults) |-> float_str(mults[i].val)])
  \o <<"]">>

NA == <<"N", "/", "A">>

\* avg_mult or 'N/A', avg_mult or 0, as texts
avg_or(avg_mult, otherwise) ==
  IF avg_mult.none \/ avg_mult.val = 0 THEN otherwise ELSE float_str(avg_mult.val)

\* ev_est = (avg_mult or 0) * ebitda: the int 0 times a float is a zero with the
\* float's sign
ev_est_of(avg_mult, ebitda) ==
  IF avg_mult.none \/ avg_mult.val = 0
  THEN Dbl(ebitda.h < 0 \/ ebitda.neg, <<>>, 0)
  ELSE FMul(FromHundredths(avg_mult.val), ToDouble(ebitda))

\* equity_est = ev_est - debt
equity_est_of(ev_est, debt) == FSub(ev_est, ToDouble(debt))

\* ((equity_est/actual_mc)-1)*100
upside_of(equity_est, actual_mc) ==
  FMul(FSub(FDiv(equity_est, ToDouble(actual_mc)), FromInt(1)), FromInt(100))

\* an upside computed whatever the market capitalisation is
upside_pct_unguarded(equity_est, actual_mc) ==
  IF actual_mc.h = 0
  THEN [raised |-> TRUE, divided |-> TRUE, none |-> TRUE, value |-> FromInt(0)]
  ELSE [raised |-> FALSE, divided |-> TRUE, none |-> FALSE,
        value |-> upside_of(equity_est, actual_mc)]

\* upside_pct = ((equity_est/actual_mc)-1)*100 if actual_mc else None; divided
\* tells whether the division was evaluated
upside_pct(equity_est, actual_mc) ==
  IF actual_mc.h = 0
  THEN [raised |-> FALSE, divided |-> FALSE, none |-> TRUE, value |-> FromInt(0)]
  ELSE [raised |-> FALSE, divided |-> TRUE, none |-> FALSE,
        value |-> upside_of(equity_est, actual_mc)]

\* f"{upside_pct:.1f}%" if upside_pct is not None else 'N/A'
upside_str(upside) ==
  IF upside.none THEN NA ELSE format_1f(upside.value) \o <<"%">>

\* lines 369-387: the estimates and the texts of the valuation section, given
\* the peers' multiples and the fundamentals of the company
valuation_of(peers, f) ==
  LET ev_est    == ev_est_of(peers.avg, f.ebitda)
      equity_est == equity_est_of(ev_est, f.net_debt)
      upside    == upside_pct(equity_est, f.market_cap)
  IN  [raised |-> upside.raised, divided |-> upside.divided,
       peer_names |-> peers.names, peer_mults |-> peers.mults, avg_mult |-> peers.avg,
       actual_mc |-> f.market_cap, debt |-> f.net_debt, ebitda |-> f.ebitda,
       ev_est |-> ev_est, equity_est |-> equity_est,
       peers_text |-> join(<<",", " ">>, peers.names),
       mults_text |-> list_str(peers.mults),
       avg_text |-> avg_or(peers.avg, NA),
       ebitda_text |-> format_comma_0f(ToDouble(f.ebitda)),
       ev_text |-> avg_or(peers.avg, <<"0">>) \o <<"U+00D7">>
                   \o format_comma_0f(ToDouble(f.ebitda))
                   \o <<" ", "=", " ", "$">> \o format_comma_0f(ev_est),
       debt_text |-> format_comma_0f(ToDouble(f.net_debt)),
       equity_text |-> format_comma_0f(equity_est),
       mc_text |-> format_comma_0f(ToDouble(f.market_cap)),
       upside_text |-> upside_str(upside)]

\* the valuation of the "Let AI choose peers" branch after the peers were
\* proposed (lines 360-387): target answers the ticker call for the company
\* itself, info is what yfinance holds
ai_valuation(company_name, ai_text, res, ev, target, info) ==
  valuation_of(ai_peer_multiples(ai_text, res, ev),
               fetch_fundamentals_yf(resolve_company_to_ticker(company_name, target), info))

\* what yfinance holds for the company
Info(marketCap, totalDebt, cashAndShortTermInvestments, cash, ebitda) ==
  [kind |-> "info",
   info |-> [marketCap |-> marketCap, totalDebt |-> totalDebt,
             cashAndShortTermInvestments |-> cashAndShortTermInvestments,
             cash |-> cash, ebitda |-> ebitda]]

\* the answer of the ticker service for the company with what yfinance then
\* does: it raises, holds nothing, or holds the figures
Fundamentals ==
  {<<Raises, [kind |-> "error"]>>,
   <<Answers(<<"T", "K", "R">>), [kind |-> "none"]>>,
   <<Answers(<<"T", "K", "R">>), Info(Num(0), Num(300), Null, Num(100), Num(50))>>,
   <<Answers(<<"T", "K", "R">>), Info(Null, Num(100), Absent, Num(300), Num(0 - 50))>>,
   <<Answers(<<"T", "K", "R">>), Info(Num(2000), Num(503), Num(500), Absent, Num(250))>>,
   <<Answers(<<"T", "K", "R">>), Info(Num(1000), Absent, Absent, Absent, Num(125))>>}

\* the market-data service for the proposed peers: multiples 8.0 and 8.01 and
\* its failures
ValuationEvResponses ==
  {EvResponse("error", "none", 0), EvResponse("empty", "none", 0),
   EvResponse("list", "number", 800), EvResponse("list", "number", 801)}

\* the ticker service for one proposed peer: the call that tests the name
\* raises, or it answers and the call that names the ticker raises or answers
PeerResolutions ==
  {<<Raises>>, <<Answers(<<" ", "T", "K", "R">>), Raises>>,
   <<Answers(<<" ", "T", "K", "R">>), Answers(<<" ", "T", "K", "R">>)>>}

ValuationInputs(maxPeers) ==
  UNION {{[fn |-> "ai_valuation", company_name |-> Acme, ai_text |-> AiText(n),
           res |-> concat(res), ev |-> ev, target |-> f[1], info |-> f[2]] :
            res \in [1..n -> PeerResolutions],
            ev \in [1..n -> ValuationEvResponses],
            f \in Fundamentals} : n \in 0..maxPeers}

InitValuation ==
  /\ AppIdle
  /\ inp \in ValuationInputs(MaxPeers)
  /\ out = NotRun

DoAiValuation ==
  /\ inp.fn = "ai_valuation"
  /\ out = NotRun
  /\ out' = [fn |-> "ai_valuation",
             valuation |-> ai_valuation(inp.company_name, inp.ai_text, inp.res,
                                        inp.ev, inp.target, inp.info)]
  /\ UNCHANGED <<session, disk, ui, pc, requested, inp>>

NextValuation == DoAiValuation

SpecValuation == InitValuation /\ [][NextValuation]_vars

\* two doubles are the same number (the two zeros are)
SameNumber(x, y) == x.m = y.m /\ x.e = y.e /\ (x.m = <<>> \/ x.neg = y.neg)

\* the market capitalisation is zero or unavailable
NoMarketCap(info) == info.kind # "info" \/ get_or_0(info.info.marketCap) = 0

\* C11: the valuation of the AI-selected-peers path raises nothing; when the
\* market capitalisation is zero or unavailable the upside is reported as
\* "N/A" and no division is evaluated; when no peer has a (non-zero) multiple
\* the average is reported as "N/A", the estimated enterprise value is 0 and
\* the implied equity value is 0 minus the net debt
C11_DegenerateValuation ==
  out.fn = "ai_valuation" =>
    LET v == out.valuation
    IN  /\ ~v.raised
        /\ NoMarketCap(inp.info) =>
             /\ v.upside_text = NA
             /\ ~v.divided
        /\ (\A i \in 1..Len(v.peer_mults) : v.peer_mults[i].val = 0) =>
             /\ v.avg_text = NA
             /\ v.ev_est.m = <<>>
             /\ SameNumber(v.equity_est, FSub(FromInt(0), ToDouble(v.debt)))

\* peers were proposed, none has a multiple, the market capitalisation is
\* missing and there is net debt
C11_Witness ==
  /\ out.fn = "ai_valuation"
  /\ Len(out.valuation.peer_names) > 0
  /\ out.valuation.peer_mults = <<>>
  /\ inp.info.kind = "info"
  /\ NoMarketCap(inp.info)
  /\ out.valuation.debt.h # 0
  /\ out.valuation.upside_text = NA

\* ------------------------------------------------------------------------
\* The application (src/app.py:311-440, 611-711): the runs of the script, with
\* its two button handlers, over the session state and the temporary files.
\*   session    st.session_state's memo_path, company_name and situation_type
\*              (NoSession before the first memo)
\*   disk       the saved memo documents; a memo_path is a position in it
\*   ui         the messages the run has shown so far
\*   pc         the line the run is at ("idle" when it is over, "rerun" when
\*              it was ended by a rerun request and the next run is due)
\*   requested  the request that arrived while the run was in progress
\*   inp        the widget values and service answers of the run
\*   out        the artifact the run shows and offers for download
\* ------------------------------------------------------------------------

LetAIChoosePeers == "Let AI choose peers"

EnterPeerNames == "I'll enter peer company names"

\* valuation_mode = None; like the empty text it is falsy
NoMode == "None"

\* step 3 of generate_special_situation_note: the valuation section, or the
\* exception that leaves the function.  world.peers answers the completion call
\* that proposes peers, world.res and world.ev the ticker and multiple lookups
\* (of the parent's peers in the entered-names mode), world.res2 and world.ev2
\* those of the spun-off company's peers, world.target the ticker lookup of the
\* company itself and world.info yfinance
valuation_section(company_name, situation_type, valuation_mode, parent_peers, spinco_peers, world) ==
  IF ~(situation_type = SpinOff /\ valuation_mode \notin {NoMode, ""})
  THEN [raised |-> FALSE, kind |-> "none"]
  ELSE IF valuation_mode = LetAIChoosePeers
  THEN IF ~world.peers.ok
       THEN [raised |-> TRUE, kind |-> "ai"]
       ELSE LET v == ai_valuation(company_name, world.peers.content, world.res,
                                  world.ev, world.target, world.info)
            IN  [raised |-> v.raised, kind |-> "ai", valuation |-> v]
  ELSE IF valuation_mode = EnterPeerNames
  THEN LET p == process_peers(parent_peers, world.res, world.ev)
           sp == process_peers(spinco_peers, world.res2, world.ev2)
       IN  IF p.raised THEN [raised |-> TRUE, kind |-> "names"]
           ELSE [raised |-> sp.raised, kind |-> "names", parent |-> p, spinco |-> sp]
  ELSE [raised |-> FALSE, kind |-> "generic"]

\* generate_special_situation_note: the document it saves, or the exception.
\* The text extractors absorb their failures, so uploaded_files reaches only
\* the prompt.
generate_special_situation_note(company_name, situation_type, uploaded_files, valuation_mode, parent_peers, spinco_peers, world) ==
  IF situation_type \notin DOMAIN REPORT_TEMPLATES
  THEN [raised |-> TRUE, error |-> "Unsupported situation type"]
  ELSE IF valuation_section(company_name, situation_type, valuation_mode,
                            parent_peers, spinco_peers, world).raised
  THEN [raised |-> TRUE, error |-> "valuation"]
  ELSE IF ~world.completion.ok
  THEN [raised |-> TRUE, error |-> "completion"]
  ELSE LET structure == REPORT_TEMPLATES[situation_type]
           memo      == clean_markdown(world.completion.content)
           memo_dict == split_into_sections(memo, structure)
       IN  [raised |-> FALSE,
            doc |-> format_memo_docx(memo_dict, company_name, situation_type)]

MemoWarning == "Please fill in all fields and upload at least one document."

MemoSuccess == "Memo generated successfully!"

MemoError == "An error occurred during memo generation"

InfographicWarning ==
  "Please upload the memo and confirm the company name and situation type."

NoSectionsError == "Could not extract any sections from the document."

InfographicSuccess == "Successfully extracted sections from the memo."

InfographicError == "An error occurred during infographic generation"

\* a handler that writes the company and the situation before the note is
\* generated
session_after_memo_eager(s, r, memo_path, company_name, situation_type) ==
  [memo_path |-> IF r.raised THEN s.memo_path ELSE memo_path,
   company_name |-> company_name, situation_type |-> situation_type]

\* the three assignments to st.session_state, reached only when
\* generate_special_situation_note returned
session_after_memo(s, r, memo_path, company_name, situation_type) ==
  IF r.raised THEN s
  ELSE [memo_path |-> memo_path, company_name |-> company_name,
        situation_type |-> situation_type]

\* at most MaxMemos memos are saved
MaxMemos == 2

Unsupported == <<"I", "P", "O">>

\* an uploaded file
File(name) == [name |-> name]

\* the memo the completion service writes for situation S: its first two
\* titles, marked up, with a paragraph each
MemoAnswer(S) ==
  <<"#", "#", " ">> \o RegistryTitles[S][1] \o <<"\n", "*", "*">> \o Foo
  \o <<"*", "*", "\n">> \o RegistryTitles[S][2] \o <<"\n">> \o Bar \o <<"\n">>

Completions(S) ==
  {Raises} \cup (IF S \in DOMAIN REPORT_TEMPLATES THEN {Answers(MemoAnswer(S))} ELSE {})

\* the services around the valuation: one peer, resolved, with multiple m
World(peers, m, completion) ==
  [peers |-> peers, res |-> <<Answers(<<"T", "K", "R">>), Answers(<<"T", "K", "R">>)>>,
   ev |-> <<m>>, res2 |-> <<Answers(<<"T", "K", "R">>)>>,
   ev2 |-> <<EvResponse("list", "number", 800)>>,
   target |-> Answers(<<"T", "K", "R">>), info |-> [kind |-> "error"],
   completion |-> completion]

MemoRequest(company_name, situation_type, uploaded_files, valuation_mode, world) ==
  [fn |-> "Generate Memo", company_name |-> company_name,
   situation_type |-> situation_type, uploaded_files |-> uploaded_files,
   valuation_mode |-> valuation_mode,
   parent_peers |-> IF valuation_mode = EnterPeerNames THEN PeerName(1) ELSE <<>>,
   spinco_peers |-> IF valuation_mode = EnterPeerNames THEN PeerName(2) ELSE <<>>,
   world |-> world]

\* what the user can ask of Generate Memo.  The select box offers the registered
\* situation types only; Unsupported stands for a call of the handler's code
\* with any other value.
MemoRequests ==
  LET files  == <<File(<<"a", ".", "p", "d", "f">>)>>
      eight  == EvResponse("list", "number", 800)
      plain(c) == World(Raises, eight, c)
  IN  {MemoRequest(<<>>, ActivistCampaign, files, NoMode, plain(Raises)),
       MemoRequest(Acme, ActivistCampaign, <<>>, NoMode, plain(Raises)),
       MemoRequest(Acme, Unsupported, files, NoMode, plain(Raises))}
      \cup {MemoRequest(n, ActivistCampaign, files, NoMode, plain(c)) :
              n \in {Acme, Bar}, c \in Completions(ActivistCampaign)}
      \cup {MemoRequest(Bar, SpinOff, files, LetAIChoosePeers, World(p, eight, c)) :
              p \in {Raises, Answers(AiText(1))}, c \in Completions(SpinOff)}
      \cup {MemoRequest(Bar, SpinOff, files, EnterPeerNames, World(Raises, m, c)) :
              m \in {eight, EvResponse("empty", "none", 0)}, c \in Completions(SpinOff)}

\* generate_special_situation_note(...) as the handler calls it, per request
GeneratedNote ==
  [req \in MemoRequests |->
     generate_special_situation_note(req.company_name, req.situation_type,
       req.uploaded_files, req.valuation_mode, req.parent_peers, req.spinco_peers,
       req.world)]

\* the upload widget of step 2: nothing, a file that is no document, or a
\* document
NoUpload == [kind |-> "none"]

CorruptUpload == [kind |-> "corrupt"]

Upload(doc) == [kind |-> "docx", doc |-> doc]

InfographicRequest(uploaded, company_name, situation_type, failing) ==
  [fn |-> "Generate Infographic", uploaded |-> uploaded, company_name |-> company_name,
   situation_type |-> situation_type, failing |-> failing]

\* what the user can ask of Generate Infographic when the files in d exist
InfographicRequests(d) ==
  {InfographicRequest(NoUpload, Acme, ActivistCampaign, {}),
   InfographicRequest(CorruptUpload, Acme, ActivistCampaign, {})}
  \cup {InfographicRequest(Upload(d[k]), <<>>, ActivistCampaign, {}) : k \in 1..Len(d)}
  \cup {InfographicRequest(Upload(d[k]), Acme, S, F) :
          k \in 1..Len(d), S \in {ActivistCampaign, SpinOff}, F \in {{}, {1}}}

Init ==
  /\ AppIdle
  /\ inp = NotRun
  /\ out = NotRun

\* the script starts over at its first element call: the page of the last run
\* is replaced
StartRun(req) ==
  /\ Ready
  /\ inp' = req
  /\ ui' = <<>>
  /\ out' = NotRun
  /\ requested' = "none"
  /\ pc' = At("25")
  /\ UNCHANGED <<session, disk>>

\* a run with no button pressed (a widget changed): both handlers are skipped
Rerun ==
  /\ Ready
  /\ StartRun([fn |-> "Rerun"])

\* a run with the Generate Memo button pressed
GenerateMemo ==
  \E req \in MemoRequests :
    LET incomplete == req.company_name = <<>> \/ req.situation_type = <<>>
                      \/ req.uploaded_files = <<>>
    IN  /\ \E r \in {GeneratedNote[req]} :
             incomplete \/ r.raised \/ Len(disk) < MaxMemos
        /\ StartRun(req)

\* the lines the script can go on to after the element call of line at, in a
\* run for request req.  A run with the Generate Memo button pressed holds the
\* values of the widgets of step 1; in any other run they are what the user
\* left there
ScriptNext(at, req) ==
  LET memo == req.fn = "Generate Memo"
      situation_type_memo ==
        IF memo THEN {req.situation_type} ELSE {ActivistCampaign, SpinOff}
      valuation_mode ==
        IF memo THEN {req.valuation_mode} ELSE {LetAIChoosePeers, EnterPeerNames}
      following ==
        {ScriptOrder[i + 1] :
           i \in {k \in 1..(Len(ScriptOrder) - 1) : ScriptOrder[k] = at}}
  IN  CASE at = "620" ->
             {IF t = SpinOff THEN "627" ELSE "645" : t \in situation_type_memo}
        [] at = "629" ->
             {IF m = EnterPeerNames THEN "638" ELSE "642" : m \in valuation_mode}
        [] at = "639" -> {"645"}
        [] at = "647" ->
             IF ~memo THEN {"677"}
             ELSE IF req.company_name = <<>> \/ req.situation_type = <<>>
                     \/ req.uploaded_files = <<>>
                  THEN {"649"} ELSE {"651"}
        [] at = "651 exit" -> {"677"}
        [] at = "688" ->
             IF req.fn # "Generate Infographic" THEN {"idle"}
             ELSE IF req.uploaded = NoUpload \/ req.company_name = <<>>
                     \/ req.situation_type = <<>>
                  THEN {"690"} ELSE {"692"}
        [] at = "692 exit" -> {"idle"}
        [] OTHER -> following

\* an element call of the script outside the handlers' messages: a title, a
\* text, a widget, a button with the check of the fields behind it (647-651,
\* 688-692), the end of a handler's spinner; after 688 and the handler behind
\* it the script is over
Script ==
  /\ pc.at \in ScriptCalls
  /\ requested = "none"
  /\ \E line \in ScriptNext(pc.at, inp) :
       pc' = IF line = "idle" THEN Idle ELSE At(line)
  /\ UNCHANGED <<session, disk, ui, requested, inp, out>>

\* generate_special_situation_note returns the path of the memo it saved, and
\* the session is assigned (src/app.py:653-664); or it raises (674)
MemoNote ==
  /\ pc.at = "651"
  /\ \E r \in {GeneratedNote[inp]} :
       LET memo_path == Len(disk) + 1
       IN  /\ disk' = IF r.raised THEN disk ELSE Append(disk, r.doc)
           /\ session' = session_after_memo(session, r, memo_path,
                                            inp.company_name, inp.situation_type)
           /\ pc' = IF r.raised THEN At("675") ELSE At("666")
  /\ UNCHANGED <<ui, requested, inp, out>>

\* the message shown at a line, and the line the run goes on to
Shown(at) ==
  CASE at = "649" -> [message |-> MemoWarning, next |-> "677"]
    [] at = "666" -> [message |-> MemoSuccess, next |-> "668"]
    [] at = "675" -> [message |-> MemoError, next |-> "651 exit"]
    [] at = "690" -> [message |-> InfographicWarning, next |-> "idle"]
    [] at = "696" -> [message |-> NoSectionsError, next |-> "692 exit"]
    [] at = "698" -> [message |-> InfographicSuccess, next |-> "575"]
    [] at = "701" -> [message |-> InfographicPreview, next |-> "702"]
    [] at = "711" -> [message |-> InfographicError, next |-> "692 exit"]

\* st.warning, st.success, st.error and st.subheader of the two handlers
Show ==
  /\ pc.at \in {"649", "666", "675", "690", "696", "698", "701", "711"}
  /\ requested = "none"
  /\ ui' = Append(ui, Element(Shown(pc.at).message, <<>>))
  /\ pc' = IF Shown(pc.at).next = "idle" THEN Idle
           ELSE [pc EXCEPT !.at = Shown(pc.at).next]
  /\ UNCHANGED <<session, disk, requested, inp, out>>

\* st.download_button of the memo (src/app.py:667-673)
DownloadMemo ==
  /\ pc.at = "668"
  /\ requested = "none"
  /\ out' = [fn |-> "Generate Memo", download |-> session.memo_path]
  /\ pc' = At("651 exit")
  /\ UNCHANGED <<session, disk, ui, requested, inp>>

\* a run with the Generate Infographic button pressed
GenerateInfographic == \E req \in InfographicRequests(disk) : StartRun(req)

\* extract_sections_from_docx_for_infographic and the branch on its result
\* (src/app.py:694-698); a file that is no document raises (710)
ExtractSections ==
  /\ pc.at = "692"
  /\ pc' = IF inp.uploaded = CorruptUpload THEN At("711")
           ELSE LET sections == extract_sections_from_docx_for_infographic(
                                  inp.uploaded.doc, inp.situation_type)
                IN  IF sections = <<>> THEN At("696")
                    ELSE Position("698", sections, 0, <<>>)
  /\ UNCHANGED <<session, disk, ui, requested, inp, out>>

\* st.components.v1.html shows the page (src/app.py:699, 702)
PreviewInfographic ==
  /\ pc.at = "702"
  /\ requested = "none"
  /\ out' = [fn |-> "Generate Infographic",
             html |-> [title |-> inp.company_name, cards |-> pc.cards],
             offered |-> FALSE]
  /\ pc' = [pc EXCEPT !.at = "704"]
  /\ UNCHANGED <<session, disk, ui, requested, inp>>

\* st.download_button of the page (src/app.py:704-709)
DownloadInfographic ==
  /\ pc.at = "704"
  /\ requested = "none"
  /\ out' = [out EXCEPT !.offered = TRUE]
  /\ pc' = At("692 exit")
  /\ UNCHANGED <<session, disk, ui, requested, inp>>

Next ==
  \/ Rerun
  \/ Request
  \/ Interrupt
  \/ Script
  \/ GenerateMemo
  \/ MemoNote
  \/ Show
  \/ DownloadMemo
  \/ GenerateInfographic
  \/ ExtractSections
  \/ Summarize
  \/ WarnSummary
  \/ PreviewInfographic
  \/ DownloadInfographic

Spec == Init /\ [][Next]_vars

\* C10: across any sequence of Generate Memo and Generate Infographic actions
\* the session values memo_path, company_name and situation_type change only
\* in a Generate Memo action whose memo generation succeeded: a step changes
\* them only when generate_special_situation_note has returned for the memo
\* request, and then to the memo just saved and to the company and the
\* situation of that request.  Every other step leaves all three as they
\* were: a memo run whose generation fails (unsupported situation type, failed
\* peer or completion call), an infographic run that succeeds, fails or finds
\* no sections, a run with no button pressed, a run ended by a rerun or stop
\* request
C10_SessionChangesOnlyOnMemoSuccess ==
  [][session' # session =>
       /\ inp.fn = "Generate Memo"
       /\ pc.at = "651"
       /\ ~GeneratedNote[inp].raised
       /\ disk' = Append(disk, GeneratedNote[inp].doc)
       /\ session' = [memo_path |-> Len(disk'),
                      company_name |-> inp.company_name,
                      situation_type |-> inp.situation_type]]_vars

\* a memo run for another company and situation failed after a successful one,
\* its error is on the page, and the session still names the earlier memo
C10_Witness ==
  /\ session # NoSession
  /\ session.memo_path = Len(disk)
  /\ inp.fn = "Generate Memo"
  /\ inp.company_name # session.company_name
  /\ inp.situation_type # session.situation_type
  /\ \E k \in 1..Len(ui) : ui[k].message = MemoError

====
